---- MODULE Spec2Model ----
(***************************************************************************)
(* The post lifecycle pipeline of the Nostr post scheduler: the Signing    *)
(* Queue (services/signing-queue.service.ts), the Scheduler (scheduler.ts) *)
(* with its publishNow entry point, the Publisher (publisher.ts,           *)
(* nostr.service.ts) and the post store (database/db.ts).                  *)
(*                                                                         *)
(* Every await of the TypeScript code is a point where another task of the *)
(* single Node.js process can run, so every action below is the code       *)
(* between two awaits that touch the store or the network.                 *)
(***************************************************************************)
EXTENDS Integers, Sequences, FiniteSets, TLC

(***************************************************************************)
(* Bounds of the model.                                                    *)
(***************************************************************************)
MaxTime == 1         \* the clock runs 0..MaxTime
NumRelays == 2       \* relays of a direct publish
MaxHanded == 2       \* hand-overs of a post to a channel are counted up to here
MaxDifficulty == 5   \* the miner is asked for 0..MaxDifficulty leading zero bits
PowBits == 2         \* POW_BITS of the deployment whose signing steps are followed

PostIds == {1, 2}
AccountIds == {1, 2}
Times == 0..MaxTime

\* SQL NULL / JS undefined of a string column or value.
NULL == "NULL"
\* SQL NULL of posts.signed_event; a stored payload p is <<p>>.
NoEvent == <<>>
\* SQL NULL of posts.published_at.
NoTime == -1

Methods == {"direct", "api", "nostrmq"}
Statuses == {"pending", "signing", "signed", "published", "failed"}

(***************************************************************************)
(* Environment (process.env) of the deployment that is modelled: nothing   *)
(* set, so the code's defaults apply.                                      *)
(***************************************************************************)
EnvNostrNpub == NULL
EnvApiEndpoint == NULL
DefaultApiEndpoint == "http://localhost:3000/post/note"

(***************************************************************************)
(* Error messages of the code.                                             *)
(***************************************************************************)
ErrNoPreSigned == "Post does not have a pre-signed event"
ErrInvalidJson == "Invalid signed event JSON data"
ErrMqTarget == "NostrMQ target not set for NostrMQ publishing method"
ErrNoNpub == "No NPUB found in accounts or environment variables"
ErrNoNsec == "No private key (nsec) found for direct publishing"
ErrDbClosed == "SQLITE_MISUSE: Database is closed"
ErrRelays == "Not enough relays received the event"
ErrMqSend == "NostrMQ send failed"
ErrSign == "signing or mining failed"
ErrMine == "mining worker failed"


VARIABLES
    posts,          \* table posts: id -> row, for the ids that have a row
    accounts,       \* table nostr_accounts: AccountIds -> row (present = row exists)
    keychain,       \* OS keychain: AccountIds -> nsec or NULL
    now,            \* the clock (Date.now(), datetime('now'))
    isProcessing,   \* SigningQueueService.isProcessing
    sq,             \* the processQueue() passes in progress
    sched,          \* the checkAndPublishPosts() passes that are running
    pn,             \* the publishNow() call in flight, then its result
    handed,         \* PostIds -> times the post was handed to a delivery channel
    miner,          \* the mineEventPow() call in flight: its worker, then its result
    notes,          \* the notes table: note id -> row
    stopped,        \* which of the two services stop() has been called on
    receiver,       \* the message-queue response receiver: its subscriptions and callers
    web,            \* the POST /api/posts request being handled by the web server
    jobService      \* BackgroundJobService: jobs, isRunning, processingJob

vars == <<posts, accounts, keychain, now, isProcessing, sq,
          sched, pn, handed, miner, notes, stopped, receiver, web, jobService>>

(***************************************************************************)
(* The post store.                                                         *)
(***************************************************************************)

\* The notes: each post is scheduled from a note of its own.
Notes == [n \in PostIds |-> [id |-> n, content |-> IF n = 1 THEN "note a" ELSE "note b"]]

\* stop() has been called on neither service.
NotStopped == [scheduler |-> FALSE, signingQueue |-> FALSE]

\* The calls of initializeNostrMQReceiver() that are followed.
InitCallers == {"start", "pass", "publishNow"}

\* let receiveSubscription = null: no subscription is open, no call is under way.
ReceiverIdle == [receiveSubscription |-> NULL, open |-> {},
                 pc |-> [c \in InitCallers |-> "idle"]]

\* The web server of the daemon between two requests: it was constructed
\* with the scheduler and the signing queue, and no request is being handled.
WebIdle == [pc |-> "idle", scheduler |-> TRUE, post |-> 0, isImmediate |-> FALSE,
            status |-> 0, called |-> FALSE, triggered |-> FALSE, result |-> "none"]

\* new BackgroundJobService(): no job, not started, nothing being processed
\* (processingJob 0: null).  lastId is the place of the last job in the Map.
JobServiceIdle == [jobs |-> <<>>, isRunning |-> FALSE, processingJob |-> 0, lastId |-> 0]

\* A post row as schedulePostFromNote inserts it.
NewPost(id, scheduledFor, accountId, publishMethod) ==
    [id |-> id, note_id |-> id, status |-> "pending", scheduled_for |-> scheduledFor,
     account_id |-> accountId, publish_method |-> publishMethod,
     api_endpoint |-> NULL, error_message |-> NULL, event_id |-> NULL,
     primal_url |-> NULL, published_at |-> NoTime, signed_event |-> NoEvent]

\* schedulePostFromNote(noteId, scheduledFor, accountId, apiEndpoint,
\* publishMethod): the insert stores publishMethod || 'direct'.
schedulePostFromNote(id, scheduledFor, accountId, publishMethod) ==
    NewPost(id, scheduledFor, accountId,
            IF publishMethod # NULL THEN publishMethod ELSE "direct")

\* UPDATE posts SET status = 'published', published_at = datetime('now') WHERE id = ?
markAsPublished(tbl, id, t) ==
    [tbl EXCEPT ![id].status = "published", ![id].published_at = t]

\* markAsFailed that leaves error_message as it was.
markAsFailedNoMessage(tbl, id, errorMessage) ==
    [tbl EXCEPT ![id].status = "failed"]

\* markAsFailed that puts the post back in the queue for another attempt.
markAsFailedForRetry(tbl, id, errorMessage) ==
    [tbl EXCEPT ![id].status = "pending", ![id].error_message = errorMessage]

\* UPDATE posts SET status = 'failed', error_message = ? WHERE id = ?
markAsFailed(tbl, id, errorMessage) ==
    [tbl EXCEPT ![id].status = "failed", ![id].error_message = errorMessage]

\* updatePostEventDetails without its WHERE clause: every row is written.
updatePostEventDetailsEveryRow(tbl, id, eventId) ==
    [p \in DOMAIN tbl |->
        [tbl[p] EXCEPT !.event_id = eventId,
                       !.primal_url = "https://primal.net/e/" \o eventId]]

\* UPDATE posts SET event_id = ?, primal_url = ? WHERE id = ?
updatePostEventDetails(tbl, id, eventId) ==
    [tbl EXCEPT ![id].event_id = eventId,
                ![id].primal_url = "https://primal.net/e/" \o eventId]

\* updatePostStatus(id, 'signing'): one update keyed by the post id.
markAsSigning(tbl, id) ==
    [tbl EXCEPT ![id].status = "signing"]

\* updatePostStatus(id, 'signed', signed payload): status and payload in one update.
markAsSigned(tbl, id, signedEventData) ==
    [tbl EXCEPT ![id].status = "signed", ![id].signed_event = <<signedEventData>>]

\* The ids of S as a sequence ORDER BY scheduled_for ASC (rowid breaks ties).
RECURSIVE OrderByScheduledFor(_, _)
\* A query without its ORDER BY clause: the rows come in the order of
\* their ids.
RECURSIVE OrderById(_, _)
OrderById(tbl, S) ==
    IF S = {} THEN <<>>
    ELSE LET first == CHOOSE p \in S : \A q \in S : p <= q
         IN  <<first>> \o OrderById(tbl, S \ {first})

OrderByScheduledFor(tbl, S) ==
    IF S = {} THEN <<>>
    ELSE LET first == CHOOSE p \in S : \A q \in S :
                          \/ tbl[p].scheduled_for < tbl[q].scheduled_for
                          \/ /\ tbl[p].scheduled_for = tbl[q].scheduled_for
                             /\ p <= q
         IN  <<first>> \o OrderByScheduledFor(tbl, S \ {first})

\* The rows of a sequence of ids, as the query returned them.
Rows(tbl, ids) == [k \in 1..Len(ids) |-> tbl[ids[k]]]

\* WHERE status = 'pending' AND datetime(scheduled_for) <= datetime('now')
getPendingPosts(tbl, t) ==
    Rows(tbl, OrderByScheduledFor(tbl,
        {p \in DOMAIN tbl : tbl[p].status = "pending" /\ tbl[p].scheduled_for <= t}))

\* getDuePostsByStatus('signed'): signed posts whose due time has passed.
getPendingSignedPosts(tbl, t) ==
    Rows(tbl, OrderByScheduledFor(tbl,
        {p \in DOMAIN tbl : tbl[p].status = "signed" /\ tbl[p].scheduled_for <= t}))

\* Pending posts whose due time has arrived or that still need pre-signing
\* (every post without a stored payload is pre-signed ahead of its due time).
getPostsReadyForSigning(tbl, t) ==
    Rows(tbl, OrderByScheduledFor(tbl,
        {p \in DOMAIN tbl : /\ tbl[p].status = "pending"
                         /\ \/ tbl[p].scheduled_for <= t
                            \/ tbl[p].signed_event = NoEvent}))

\* SELECT p.*, n.content FROM posts p JOIN notes n ... WHERE p.id = ?
getPost(tbl, id) ==
    IF id \in DOMAIN tbl THEN <<tbl[id]>> ELSE <<>>

\* SELECT * FROM nostr_accounts WHERE id = ?  (<<>> when there is no row)
getAccount(tbl, id) ==
    IF id \in AccountIds /\ tbl[id].present THEN <<tbl[id]>> ELSE <<>>

\* SELECT * FROM nostr_accounts WHERE is_active = 1 LIMIT 1
getActiveAccount(tbl) ==
    LET act == {a \in AccountIds : tbl[a].present /\ tbl[a].is_active}
    IN  IF act = {} THEN <<>> ELSE <<tbl[CHOOSE a \in act : \A b \in act : a <= b]>>

\* keytar.getPassword(SERVICE_NAME, 'nostr-account-<id>'); errors give null.
getNsecFromKeychain(kc, accountId) ==
    IF accountId \in AccountIds THEN kc[accountId] ELSE NULL

(***************************************************************************)
(* The network, as one delivery attempt sees it.  A response is what the   *)
(* relays, the queue transport or the HTTP endpoint do with one attempt.   *)
(***************************************************************************)

\* A 2xx body: the JSON fields eventId, event_id, id (NULL when absent) and
\* bare, the body itself when it is a bare 64-character string.
NoBody == [eventId |-> NULL, event_id |-> NULL, id |-> NULL, bare |-> NULL]
ApiBodies == {NoBody, [NoBody EXCEPT !.id = "abc123"]}

Response(kind, acks, body) == [kind |-> kind, acks |-> acks, body |-> body]

\* direct: the store handle read after db.close() rejects ("dbclosed") or
\* answers; then connecting or publishing throws (time-out, no relay took
\* the event: "relayerr"), or the publish returns the relays that
\* acknowledged ("acked").
DirectResponses ==
    {Response(k, 0, NoBody) : k \in {"dbclosed", "relayerr"}}
    \cup {Response("acked", n, NoBody) : n \in 0..NumRelays}

MqResponses == {Response(k, 0, NoBody) : k \in {"mq_sent", "mq_err"}}

\* api: a non-2xx answer (a fetch that throws is propagated the same way)
\* or a 2xx answer with its body.
ApiResponses ==
    {Response("http_500", 0, NoBody)}
    \cup {Response("http_200", 0, b) : b \in ApiBodies}

\* The non-2xx answer met: response.status and await response.text().
HttpFailure == [status |-> 500, text |-> "relay error"]

\* An error message that leaves the response body out.
FailedToPublishStatusOnly(status, responseText) ==
    "Failed to publish: " \o ToString(status)

\* `Failed to publish: ${response.status} - ${responseText}`
FailedToPublish(status, responseText) ==
    "Failed to publish: " \o ToString(status) \o " - " \o responseText

ErrHttp == FailedToPublish(HttpFailure.status, HttpFailure.text)

ResponsesFor(method) ==
    CASE method = "direct" -> DirectResponses
      [] method = "nostrmq" -> MqResponses
      [] OTHER -> ApiResponses

(***************************************************************************)
(* The Publisher.  An outcome is what a publish call hands back to the     *)
(* Scheduler: the returned event id or the thrown error, with the channel  *)
(* that was used, whether the channel was invoked at all, the number of    *)
(* relays that acknowledged (direct) and the 2xx body received (api).      *)
(***************************************************************************)
\* A publish that returns without handing back the event id.
OkWithoutEventId(method, eventId, acks) ==
    [ok |-> TRUE, eventId |-> NULL, error |-> NULL,
     method |-> method, invoked |-> TRUE, acks |-> acks, body |-> NoBody]

\* A publish call returns: `return eventId || signedEventData.id`.
Ok(method, eventId, acks) ==
    [ok |-> TRUE, eventId |-> eventId, error |-> NULL,
     method |-> method, invoked |-> TRUE, acks |-> acks, body |-> NoBody]

Err(method, message, invoked) ==
    [ok |-> FALSE, eventId |-> NULL, error |-> message,
     method |-> method, invoked |-> invoked, acks |-> 0, body |-> NoBody]

NoOutcome == Err("none", NULL, FALSE)

\* A channel (relays, queue transport, HTTP endpoint) is invoked for a post.
HandOver(id) ==
    [handed EXCEPT ![id] = IF @ < MaxHanded THEN @ + 1 ELSE @]

\* a || b of JavaScript on strings that are NULL (undefined) or non-empty.
OrElse(a, b) == IF a # NULL THEN a ELSE b

\* The id the API branch takes from a 2xx response, NULL when it has none.
ExtractEventId(body) ==
    IF body.eventId # NULL THEN body.eventId
    ELSE IF body.event_id # NULL THEN body.event_id
    ELSE IF body.id # NULL THEN body.id
    ELSE body.bare

\* publishSignedEventToRelays: connect and publish errors are caught and
\* logged; it returns the event's id with the relays that acknowledged.
publishSignedEventToRelays(signedEventData, r) ==
    [id |-> signedEventData.id,
     relays |-> IF r.kind = "acked" THEN r.acks ELSE 0]

\* A resolution that falls back to a queue target of the environment.
PreSignedPlanEnvTarget(post, accts) ==
    [method |-> OrElse(post.publish_method, "direct"),
     endpoint |-> OrElse(post.api_endpoint, OrElse(EnvApiEndpoint, DefaultApiEndpoint)),
     nostrmqTarget |-> "mq_target_env"]

\* The channel, endpoint and queue target publishPreSignedEvent resolves.
PreSignedPlan(post, accts) ==
    LET env == OrElse(post.api_endpoint, OrElse(EnvApiEndpoint, DefaultApiEndpoint))
        acct == IF post.account_id # 0 THEN getAccount(accts, post.account_id) ELSE <<>>
    IN  IF acct # <<>>
        THEN [method |-> OrElse(post.publish_method, acct[1].publish_method),
              endpoint |-> OrElse(acct[1].api_endpoint, env),
              nostrmqTarget |-> acct[1].nostrmq_target]
        ELSE [method |-> OrElse(post.publish_method, "direct"),
              endpoint |-> env,
              nostrmqTarget |-> NULL]

\* A signed_event column whose text is not JSON.
Garbled == [garbled |-> "{not json"]

\* JSON.parse(post.signed_event) returns.
JsonParses(text) == text # Garbled

\* A publishPreSignedEvent that sends whatever the signed_event column
\* holds, also nothing.
publishPreSignedEventAnyPayload(post, accts, r) ==
    IF r.kind = "http_500" THEN Err("api", ErrHttp, TRUE)
    ELSE [Ok("api", ExtractEventId(r.body), 0) EXCEPT !.body = r.body]

\* publishPreSignedEvent(post) under the response r.
publishPreSignedEvent(post, accts, r) ==
    IF post.signed_event = NoEvent THEN Err("none", ErrNoPreSigned, FALSE)
    ELSE IF ~JsonParses(post.signed_event[1]) THEN Err("none", ErrInvalidJson, FALSE)
    ELSE
    LET signedEventData == post.signed_event[1]
        plan == PreSignedPlan(post, accts)
    IN  CASE plan.method = "direct" ->
               IF r.kind = "dbclosed" THEN Err("direct", ErrDbClosed, FALSE)
               ELSE LET result == publishSignedEventToRelays(signedEventData, r)
                    IN  Ok("direct", OrElse(result.id, signedEventData.id), result.relays)
          [] plan.method = "nostrmq" ->
               IF plan.nostrmqTarget = NULL THEN Err("nostrmq", ErrMqTarget, FALSE)
               ELSE IF r.kind = "mq_err" THEN Err("nostrmq", ErrMqSend, TRUE)
               ELSE Ok("nostrmq", OrElse("mq_message_id", signedEventData.id), 0)
          [] OTHER ->
               IF r.kind = "http_500" THEN Err("api", ErrHttp, TRUE)
               ELSE [Ok("api", OrElse(ExtractEventId(r.body), signedEventData.id), 0)
                        EXCEPT !.body = r.body]

\* The account, channel and key publishToNostr resolves for a post id.
LegacyPlan(tbl, accts, postId) ==
    LET post == tbl[postId]
        m0 == OrElse(post.publish_method, "api")
        e0 == OrElse(post.api_endpoint, OrElse(EnvApiEndpoint, DefaultApiEndpoint))
        acct == IF post.account_id # 0 THEN getAccount(accts, post.account_id) ELSE <<>>
        active == getActiveAccount(accts)
    IN  IF acct # <<>>
        THEN [npub |-> acct[1].npub, nsec |-> acct[1].nsec,
              method |-> IF post.publish_method = NULL THEN acct[1].publish_method ELSE m0,
              endpoint |-> OrElse(acct[1].api_endpoint, e0),
              nostrmqTarget |-> acct[1].nostrmq_target]
        ELSE IF active # <<>>
        THEN [npub |-> active[1].npub, nsec |-> active[1].nsec, method |-> m0,
              endpoint |-> OrElse(active[1].api_endpoint, e0),
              nostrmqTarget |-> active[1].nostrmq_target]
        ELSE [npub |-> EnvNostrNpub, nsec |-> NULL, method |-> m0,
              endpoint |-> e0, nostrmqTarget |-> NULL]

\* publishToNostr(content, apiEndpoint, postId) under the response r.  It is
\* declared Promise<void>: a successful call returns no event id.
publishToNostr(tbl, accts, kc, postId, r) ==
    LET plan == LegacyPlan(tbl, accts, postId)
        active == getActiveAccount(accts)
        accountId == IF tbl[postId].account_id # 0 THEN tbl[postId].account_id
                     ELSE IF active # <<>> THEN active[1].id ELSE 0
        finalNsec == OrElse(getNsecFromKeychain(kc, accountId), plan.nsec)
    IN  IF plan.npub = NULL THEN Err("none", ErrNoNpub, FALSE)
        ELSE CASE plan.method = "direct" ->
               IF r.kind = "dbclosed" THEN Err("direct", ErrDbClosed, FALSE)
               ELSE IF finalNsec = NULL THEN Err("direct", ErrNoNsec, FALSE)
               ELSE IF r.kind = "relayerr" THEN Err("direct", ErrRelays, TRUE)
               ELSE Ok("direct", NULL, r.acks)
          [] plan.method = "nostrmq" ->
               IF plan.nostrmqTarget = NULL THEN Err("nostrmq", ErrMqTarget, FALSE)
               ELSE IF r.kind = "mq_err" THEN Err("nostrmq", ErrMqSend, TRUE)
               ELSE Ok("nostrmq", NULL, 0)
          [] OTHER ->
               IF r.kind = "http_500" THEN Err("api", ErrHttp, TRUE)
               ELSE [Ok("api", NULL, 0) EXCEPT !.body = r.body]

\* The catch that takes every thrown value for a non-Error.
ErrorMessageUnknown(outcome) == "Unknown error"

\* error instanceof Error ? error.message : 'Unknown error'
ErrorMessage(outcome) == OrElse(outcome.error, "Unknown error")

(***************************************************************************)
(* The Signing Queue.                                                      *)
(***************************************************************************)

\* post.account_id || 1
GroupKey(post) == IF post.account_id # 0 THEN post.account_id ELSE 1

\* The keys of a Map filled in the order of rows: first occurrences.
RECURSIVE FirstOccurrences(_)
FirstOccurrences(keys) ==
    IF keys = <<>> THEN <<>>
    ELSE LET init == FirstOccurrences(SubSeq(keys, 1, Len(keys) - 1))
             last == keys[Len(keys)]
         IN  IF \E k \in 1..Len(init) : init[k] = last THEN init
             ELSE Append(init, last)

\* groupPostsByAccount: the entries of the Map, each an account id with the
\* ids of its posts in the order fetched.
groupPostsByAccount(rows) ==
    LET keys == FirstOccurrences([k \in 1..Len(rows) |-> GroupKey(rows[k])])
        Of(a) == SelectSeq(rows, LAMBDA row : GroupKey(row) = a)
    IN  [k \in 1..Len(keys) |->
            [accountId |-> keys[k],
             posts |-> [j \in 1..Len(Of(keys[k])) |-> Of(keys[k])[j].id]]]

\* A head of processAccountPosts that tests neither the account nor the key.
ResolveSigningKeyUnchecked(accts, kc, accountId) ==
    [ok |-> TRUE, nsec |-> getNsecFromKeychain(kc, accountId), error |-> NULL]

\* A head of processAccountPosts that takes the database copy of the key
\* when there is one and asks the keychain only otherwise.
ResolveSigningKeyDatabaseFirst(accts, kc, accountId) ==
    LET account == getAccount(accts, accountId)
        keychainNsec == getNsecFromKeychain(kc, accountId)
    IN  IF account = <<>>
        THEN [ok |-> FALSE, nsec |-> NULL,
              error |-> "Account " \o ToString(accountId) \o " not found"]
        ELSE IF account[1].nsec # NULL
        THEN [ok |-> TRUE, nsec |-> account[1].nsec, error |-> NULL]
        ELSE IF keychainNsec # NULL
        THEN [ok |-> TRUE, nsec |-> keychainNsec, error |-> NULL]
        ELSE [ok |-> FALSE, nsec |-> NULL,
              error |-> "No private key found for account " \o ToString(accountId)]

\* The head of processAccountPosts: the account and its private key, the
\* keychain first, then the database column, or the error it throws.
ResolveSigningKey(accts, kc, accountId) ==
    LET account == getAccount(accts, accountId)
        keychainNsec == getNsecFromKeychain(kc, accountId)
    IN  IF account = <<>>
        THEN [ok |-> FALSE, nsec |-> NULL,
              error |-> "Account " \o ToString(accountId) \o " not found"]
        ELSE IF keychainNsec # NULL
        THEN [ok |-> TRUE, nsec |-> keychainNsec, error |-> NULL]
        ELSE IF account[1].nsec # NULL
        THEN [ok |-> TRUE, nsec |-> account[1].nsec, error |-> NULL]
        ELSE [ok |-> FALSE, nsec |-> NULL,
              error |-> "No private key found for account " \o ToString(accountId)]

\* The id of the event built from a post's note at created_at.
EventId(postId, createdAt) ==
    "ev" \o ToString(postId) \o "@" \o ToString(createdAt)

\* finalEvent.rawEvent(): the event signed with the account's key.
SignedEvent(postId, createdAt, nsec) ==
    [id |-> EventId(postId, createdAt), created_at |-> createdAt, pubkey |-> nsec]

\* `Signing failed: ${error.message}`
SigningFailed(message) == "Signing failed: " \o message

SqIdle == [pc |-> "idle", groups |-> <<>>, g |-> 0, i |-> 0,
           nsec |-> NULL, error |-> NULL, created |-> 0, event |-> NoEvent]

\* The processQueue() passes that can be in progress side by side: the flag
\* is all that keeps an invocation from running beside a pass.
SqTasks == {1, 2}

\* The passes in progress.
SqRunning == {t \in SqTasks : sq[t].pc # "idle"}

\* A guard that lets every invocation through.
SqNeverBusy == FALSE

\* The guard at the head of processQueue: a pass is running.
SqBusy == isProcessing

\* processAccountPosts(accountId, accountPosts) is entered for group g: it
\* reaches its loop with the key, or throws to the catch of processQueue.
\* The account row and the keychain are written by no task of the pipeline,
\* so these reads are taken together with the step before them.
SqEnterGroup(groups, g) ==
    LET key == ResolveSigningKey(accounts, keychain, groups[g].accountId)
    IN  [SqIdle EXCEPT !.groups = groups, !.g = g, !.i = 1,
                       !.pc = IF key.ok THEN "markSigning" ELSE "failAccount",
                       !.nsec = key.nsec, !.error = key.error]

\* processQueue() up to its first await on an account: a no-op while a
\* pass is running; else the flag is set and the pass reads
\* getPostsReadyForSigning(); an empty queue ends it (finally: flag false).
\* No more passes than SqTasks are followed side by side.
processQueue ==
    IF SqBusy \/ SqRunning = SqTasks
    THEN UNCHANGED <<isProcessing, sq>>
    ELSE LET t == CHOOSE u \in SqTasks \ SqRunning :
                      \A v \in SqTasks \ SqRunning : u <= v
             postsToSign == getPostsReadyForSigning(posts, now)
         IN  IF Len(postsToSign) = 0
             THEN /\ UNCHANGED sq
                  /\ isProcessing' = FALSE
             ELSE /\ sq' = [sq EXCEPT ![t] =
                                SqEnterGroup(groupPostsByAccount(postsToSign), 1)]
                  /\ isProcessing' = TRUE

\* processQueue() is invoked by start() or by the 30 s interval.
SqCall ==
    /\ processQueue
    /\ UNCHANGED <<web, jobService, notes, stopped, receiver, miner, posts, accounts, keychain, now, sched, pn, handed>>

\* A pass that ends after the post it has just handled.
SqAdvanceEndsPass(t) ==
    /\ sq' = [sq EXCEPT ![t] = SqIdle]
    /\ isProcessing' = FALSE

\* After a post of a group: its next post, the next group, or the end of
\* the pass (finally: isProcessing = false).
SqAdvance(t) ==
    IF sq[t].i < Len(sq[t].groups[sq[t].g].posts)
    THEN /\ sq' = [sq EXCEPT ![t].i = @ + 1,
                             ![t].pc = IF @ \in {"sign", "mine"} THEN "markSigning"
                                       ELSE @]
         /\ UNCHANGED isProcessing
    ELSE IF sq[t].g < Len(sq[t].groups)
    THEN /\ sq' = [sq EXCEPT ![t] = SqEnterGroup(sq[t].groups, sq[t].g + 1)]
         /\ UNCHANGED isProcessing
    ELSE /\ sq' = [sq EXCEPT ![t] = SqIdle]
         /\ isProcessing' = FALSE

\* The post a pass is working on.
SqPost(t) == sq[t].groups[sq[t].g].posts[sq[t].i]

\* The catch of processQueue: markAsFailed for one post of the account.
SqFailAccount(t) ==
    /\ sq[t].pc = "failAccount"
    /\ posts' = markAsFailed(posts, SqPost(t), SigningFailed(sq[t].error))
    /\ SqAdvance(t)
    /\ UNCHANGED <<web, jobService, notes, stopped, receiver, miner, accounts, keychain, now, sched, pn, handed>>

\* await markAsSigning(post.id), then buildTextNote stamps the event.
SqMarkSigning(t) ==
    /\ sq[t].pc = "markSigning"
    /\ posts' = markAsSigning(posts, SqPost(t))
    /\ sq' = [sq EXCEPT ![t].pc = "sign", ![t].created = now]
    /\ UNCHANGED <<web, jobService, notes, stopped, receiver, miner, accounts, keychain, now, isProcessing, sched, pn, handed>>

\* sign, mine, re-sign, then await markAsSigned; an exception on the way
\* marks this post failed and the loop goes on.
SqSign(t) ==
    /\ sq[t].pc = "sign"
    /\ \E signed \in BOOLEAN :
         posts' = IF signed
                  THEN markAsSigned(posts, SqPost(t),
                                    SignedEvent(SqPost(t), sq[t].created, sq[t].nsec))
                  ELSE markAsFailed(posts, SqPost(t), SigningFailed(ErrSign))
    /\ SqAdvance(t)
    /\ UNCHANGED <<web, jobService, notes, stopped, receiver, miner, accounts, keychain, now, sched, pn, handed>>

(***************************************************************************)
(* The Scheduler.  start() schedules the cron task and runs a pass itself; *)
(* neither the cron callback nor start() looks whether a pass is running,  *)
(* so a pass that outlasts the cron interval runs beside the next one.     *)
(* Two passes at a time are modelled.                                      *)
(***************************************************************************)
SchedTasks == {"pass1", "pass2"}

SchedIdle == [pc |-> "idle", phase |-> "none", list |-> <<>>, i |-> 0,
              out |-> NoOutcome]

\* The post a pass is working on.
SchedPost(t) == sched[t].list[sched[t].i]

\* checkAndPublishPosts() begins: await getPendingSignedPosts().
SchedStart(t) ==
    /\ sched[t].pc = "idle"
    /\ LET signedPosts == getPendingSignedPosts(posts, now)
       IN  sched' = [sched EXCEPT ![t] =
                [SchedIdle EXCEPT !.phase = "signed", !.list = signedPosts, !.i = 1,
                     !.pc = IF Len(signedPosts) > 0 THEN "publish" ELSE "fetchPending"]]
    /\ UNCHANGED <<web, jobService, notes, stopped, receiver, miner, posts, accounts, keychain, now, isProcessing, sq, pn, handed>>

\* A pass that a failed delivery ends.
SchedNextAbortOnFailure(task) ==
    IF ~task.out.ok THEN SchedIdle
    ELSE IF task.i < Len(task.list)
    THEN [task EXCEPT !.pc = "publish", !.i = task.i + 1, !.out = NoOutcome]
    ELSE IF task.phase = "signed"
    THEN [SchedIdle EXCEPT !.pc = "fetchPending", !.phase = "signed"]
    ELSE SchedIdle

\* The pass moves to its next post, to the legacy posts, or ends.
SchedNext(task) ==
    IF task.i < Len(task.list)
    THEN [task EXCEPT !.pc = "publish", !.i = task.i + 1, !.out = NoOutcome]
    ELSE IF task.phase = "signed"
    THEN [SchedIdle EXCEPT !.pc = "fetchPending", !.phase = "signed"]
    ELSE SchedIdle

\* One turn of a loop of checkAndPublishPosts up to its write:
\*   eventId = await publishPreSignedEvent(post)      (signed posts)
\*   eventId = await publishToNostr(content, api_endpoint, id)   (legacy)
\* The call returns an event id (or nothing) or throws.
SchedPublish(t) ==
    /\ sched[t].pc = "publish"
    /\ LET post == SchedPost(t)
           method == IF sched[t].phase = "signed"
                     THEN PreSignedPlan(post, accounts).method
                     ELSE LegacyPlan(posts, accounts, post.id).method
       IN  \E r \in ResponsesFor(method) :
             LET out == IF sched[t].phase = "signed"
                        THEN publishPreSignedEvent(post, accounts, r)
                        ELSE publishToNostr(posts, accounts, keychain, post.id, r)
             IN  /\ sched' = [sched EXCEPT ![t].pc = "record", ![t].out = out]
                 /\ handed' = IF out.invoked THEN HandOver(post.id) ELSE handed
    /\ UNCHANGED <<web, jobService, notes, stopped, receiver, miner, posts, accounts, keychain, now, isProcessing, sq, pn>>

\* await markAsPublished(id) after a publish that returned, or the catch:
\* await markAsFailed(id, errorMessage).
SchedRecord(t) ==
    /\ sched[t].pc = "record"
    /\ LET out == sched[t].out
           id == SchedPost(t).id
       IN  IF out.ok
           THEN /\ posts' = markAsPublished(posts, id, now)
                /\ sched' = [sched EXCEPT ![t] =
                       IF out.eventId # NULL THEN [sched[t] EXCEPT !.pc = "eventDetails"]
                       ELSE SchedNext(sched[t])]
           ELSE /\ posts' = markAsFailed(posts, id, ErrorMessage(out))
                /\ sched' = [sched EXCEPT ![t] = SchedNext(sched[t])]
    /\ UNCHANGED <<web, jobService, notes, stopped, receiver, miner, accounts, keychain, now, isProcessing, sq,
                   pn, handed>>

\* if (eventId) await updatePostEventDetails(id, eventId)
SchedEventDetails(t) ==
    /\ sched[t].pc = "eventDetails"
    /\ posts' = updatePostEventDetails(posts, SchedPost(t).id, sched[t].out.eventId)
    /\ sched' = [sched EXCEPT ![t] = SchedNext(sched[t])]
    /\ UNCHANGED <<web, jobService, notes, stopped, receiver, miner, accounts, keychain, now, isProcessing, sq,
                   pn, handed>>

\* The fallback of the pass: await getPendingPosts().
SchedFetchPending(t) ==
    /\ sched[t].pc = "fetchPending"
    /\ LET pendingPosts == getPendingPosts(posts, now)
       IN  sched' = [sched EXCEPT ![t] =
                IF Len(pendingPosts) > 0
                THEN [SchedIdle EXCEPT !.pc = "publish", !.phase = "legacy",
                                       !.list = pendingPosts, !.i = 1]
                ELSE SchedIdle]
    /\ UNCHANGED <<web, jobService, notes, stopped, receiver, miner, posts, accounts, keychain, now, isProcessing, sq, pn, handed>>

(***************************************************************************)
(* publishNow(postId), called by the web front end.                        *)
(***************************************************************************)
PnIdle == [pc |-> "idle", post |-> 0, out |-> NoOutcome, result |-> "none"]

\* A status check that turns no post away.
PublishNowRejectsNothing(post) == FALSE

\* The status check of publishNow: the post is turned away.
PublishNowRejects(post) == post.status # "pending"

\* `Post ${postId} is not pending (status: ${post.status})`
NotPending(post) ==
    "Post " \o ToString(post.id) \o " is not pending (status: " \o post.status \o ")"

\* `Post ${postId} not found`
NotFound(postId) == "Post " \o ToString(postId) \o " not found"

\* publishNow(postId) up to its try block: await getPost(postId) and the
\* two checks, each of which throws to the caller.
PublishNowEntered(postId) ==
    LET post == getPost(posts, postId)
    IN  IF post = <<>>
        THEN [PnIdle EXCEPT !.post = postId, !.pc = "return",
                            !.result = NotFound(postId)]
        ELSE IF PublishNowRejects(post[1])
        THEN [PnIdle EXCEPT !.post = postId, !.pc = "return",
                            !.result = NotPending(post[1])]
        ELSE [PnIdle EXCEPT !.post = postId, !.pc = "publish"]

\* publishNow(postId) is called by POST /api/posts/:id/publish.
PublishNowCall(postId) ==
    /\ pn.pc = "idle"
    /\ pn' = PublishNowEntered(postId)
    /\ UNCHANGED <<web, jobService, notes, stopped, receiver, miner, posts, accounts, keychain, now, isProcessing, sq,
                   sched, handed>>

\* await publishToNostr(post.content, post.api_endpoint, post.id), then
\* await markAsPublished(id), or in the catch await markAsFailed(id,
\* errorMessage) and throw error.  With an event id the call goes on to
\* updatePostEventDetails before it returns.  publishToNostr writes nothing
\* to the store and reads only columns no task writes, so the await between
\* it and the write is taken together with the write.
PublishNowPublish ==
    /\ pn.pc \in {"publish", "eventDetails"}
    /\ IF pn.pc = "eventDetails"
       THEN /\ posts' = updatePostEventDetails(posts, pn.post, pn.out.eventId)
            /\ pn' = [pn EXCEPT !.pc = "return", !.result = "ok"]
            /\ UNCHANGED handed
       ELSE \E r \in ResponsesFor(LegacyPlan(posts, accounts, pn.post).method) :
              LET out == publishToNostr(posts, accounts, keychain, pn.post, r)
              IN  /\ handed' = IF out.invoked THEN HandOver(pn.post) ELSE handed
                  /\ IF out.ok
                     THEN /\ posts' = markAsPublished(posts, pn.post, now)
                          /\ pn' = IF out.eventId # NULL
                                   THEN [pn EXCEPT !.pc = "eventDetails", !.out = out]
                                   ELSE [pn EXCEPT !.pc = "return", !.out = out,
                                                   !.result = "ok"]
                     ELSE /\ posts' = markAsFailed(posts, pn.post, ErrorMessage(out))
                          /\ pn' = [pn EXCEPT !.pc = "return", !.out = out,
                                              !.result = ErrorMessage(out)]
    /\ UNCHANGED <<web, jobService, notes, stopped, receiver, miner, accounts, keychain, now, isProcessing, sq, sched>>

\* The caller has the result: POST /api/posts/:id/publish answers with
\* the message, or with status 500 and the error's message.
PublishNowReturn ==
    /\ pn.pc = "return"
    /\ pn' = PnIdle
    /\ UNCHANGED <<web, jobService, notes, stopped, receiver, miner, posts, accounts, keychain, now, isProcessing, sq, sched, handed>>

\* Time passes.
Tick ==
    /\ now < MaxTime
    /\ now' = now + 1
    /\ UNCHANGED <<web, jobService, notes, stopped, receiver, miner, posts, accounts, keychain, isProcessing, sq, sched, pn,
                   handed>>

(***************************************************************************)
(* The proof-of-work miner.  mineEventPow(evt, difficulty) starts a worker *)
(* with the raw event and resolves with the message the worker posts; the  *)
(* worker appends a nonce tag, recomputes the id and tries the next nonce  *)
(* until the id has the leading zero bits asked for.                       *)
(***************************************************************************)
MinerIdle == [pc |-> "idle", serialised |-> <<>>, difficulty |-> 0, nonce |-> 0,
              mined |-> <<>>]

\* The difficulties mined with, in bits.
Difficulties == 0..MaxDifficulty

\* A string as the serialisation of an event feeds it to the digest: decimal
\* numerals by their value, other strings by a code of their own.
StrCode(str) ==
    IF \E k \in 0..255 : ToString(k) = str
    THEN 1 + (CHOOSE k \in 0..255 : ToString(k) = str)
    ELSE CASE str = "nonce" -> 2
           [] str = "t" -> 4
           [] str = "note a" -> 6
           [] str = "note b" -> 9
           [] OTHER -> 12

\* The digest's share of one tag and of the tag list; every element counts,
\* with its position.
TagCode(tag) ==
    LET RECURSIVE Sum(_)
        Sum(j) == IF j = 0 THEN 0 ELSE (2 * j - 1) * StrCode(tag[j]) + Sum(j - 1)
    IN  Sum(Len(tag))

TagsCode(tags) ==
    LET RECURSIVE Sum(_)
        Sum(k) == IF k = 0 THEN 0 ELSE (2 * k - 1) * TagCode(tags[k]) + Sum(k - 1)
    IN  Sum(Len(tags))

\* getEventHash(event): the SHA-256 of [0, pubkey, created_at, kind, tags,
\* content] in hexadecimal, of which the two leading digits are followed.
\* The id and the signature of the event are not part of what is hashed.
getEventHash(event) ==
    LET digest == (7 * StrCode(event.content) + 11 * event.created_at
                   + 13 * event.kind + 5 * StrCode(event.pubkey)
                   + TagsCode(event.tags)) % 256
    IN  <<digest \div 16, digest % 16>>

\* event.sign(signer) and rawEvent(): the event with its id and signature.
RawEvent(content, tags, createdAt) ==
    LET unsigned == [pubkey |-> "pubkey_1", created_at |-> createdAt, kind |-> 1,
                     tags |-> tags, content |-> content]
    IN  [id |-> getEventHash(unsigned), pubkey |-> unsigned.pubkey,
         created_at |-> createdAt, kind |-> 1, tags |-> tags, content |-> content,
         sig |-> <<"sig", getEventHash(unsigned)>>]

\* The signed events handed to the miner: a text note, with or without a tag.
MinedEvents ==
    {RawEvent(content, tags, 0) :
         content \in {"note a", "note b"}, tags \in {<<>>, <<<<"t", "x">>>>}}

\* An acceptance test that looks at whole hexadecimal digits only.
hashMatchesDifficultyDigitsOnly(id, bits) ==
    /\ bits \div 4 <= Len(id)
    /\ \A k \in 1..(bits \div 4) : id[k] = 0

\* hashMatchesDifficulty(id, bits) of the worker.  Beyond the digits
\* followed, parseInt(undefined, 16) is NaN and NaN >> n is 0.
hashMatchesDifficulty(id, bits) ==
    LET requiredHexZeros == bits \div 4
        remainingBits == bits % 4
    IN  IF ~(/\ requiredHexZeros <= Len(id)
             /\ \A k \in 1..requiredHexZeros : id[k] = 0)
        THEN FALSE
        ELSE IF remainingBits = 0 THEN TRUE
        ELSE IF requiredHexZeros + 1 > Len(id) THEN TRUE
        ELSE id[requiredHexZeros + 1] \div (2 ^ (4 - remainingBits)) = 0

\* mineEventPow(evt, difficulty) is called: the worker starts with
\* mined = {...serialised} and nonce = 0.
MineCall ==
    /\ miner.pc = "idle"
    /\ \E evt \in MinedEvents, difficulty \in Difficulties :
         miner' = [pc |-> "mining", serialised |-> evt, difficulty |-> difficulty,
                   nonce |-> 0, mined |-> evt]
    /\ UNCHANGED <<web, jobService, notes, stopped, receiver, posts, accounts, keychain, now,
                   isProcessing, sq, sched, pn, handed>>

\* A loop that appends each nonce tag to the tags of the attempt before.
MineTryAccumulating ==
    /\ miner.pc = "mining"
    /\ LET tagged == [miner.mined EXCEPT !.tags =
                         miner.mined.tags \o
                             <<<<"nonce", ToString(miner.nonce),
                                 ToString(miner.difficulty)>>>>]
           mined == [tagged EXCEPT !.id =
                        getEventHash([pubkey |-> tagged.pubkey,
                                      created_at |-> tagged.created_at,
                                      kind |-> tagged.kind, tags |-> tagged.tags,
                                      content |-> tagged.content])]
       IN  miner' = IF hashMatchesDifficulty(mined.id, miner.difficulty)
                    THEN [miner EXCEPT !.mined = mined, !.pc = "resolved"]
                    ELSE [miner EXCEPT !.mined = mined, !.nonce = @ + 1]
    /\ UNCHANGED <<web, jobService, notes, stopped, receiver, posts, accounts, keychain, now,
                   isProcessing, sq, sched, pn, handed>>

\* One turn of the worker's loop: the nonce tag is appended to the tags of
\* the original, the id is recomputed, and the worker posts the event when
\* the id matches, else takes the next nonce.
MineTry ==
    /\ miner.pc = "mining"
    /\ LET tagged == [miner.mined EXCEPT !.tags =
                         miner.serialised.tags \o
                             <<<<"nonce", ToString(miner.nonce),
                                 ToString(miner.difficulty)>>>>]
           mined == [tagged EXCEPT !.id =
                        getEventHash([pubkey |-> tagged.pubkey,
                                      created_at |-> tagged.created_at,
                                      kind |-> tagged.kind, tags |-> tagged.tags,
                                      content |-> tagged.content])]
       IN  miner' = IF hashMatchesDifficulty(mined.id, miner.difficulty)
                    THEN [miner EXCEPT !.mined = mined, !.pc = "resolved"]
                    ELSE [miner EXCEPT !.mined = mined, !.nonce = @ + 1]
    /\ UNCHANGED <<web, jobService, notes, stopped, receiver, posts, accounts, keychain, now,
                   isProcessing, sq, sched, pn, handed>>

\* worker.once("error", reject): the worker fails and the call rejects.
MineError ==
    /\ miner.pc = "mining"
    /\ miner' = [miner EXCEPT !.pc = "rejected"]
    /\ UNCHANGED <<web, jobService, notes, stopped, receiver, posts, accounts, keychain, now,
                   isProcessing, sq, sched, pn, handed>>

\* The worker ends without posting a message and without an error (the
\* 'exit' event of the thread): mineEventPow listens for "message" and
\* "error" only, so its promise is neither resolved nor rejected.
MineExit ==
    /\ miner.pc = "mining"
    /\ miner' = [miner EXCEPT !.pc = "exited"]
    /\ UNCHANGED <<web, jobService, notes, stopped, receiver, posts, accounts, keychain, now,
                   isProcessing, sq, sched, pn, handed>>

\* The caller has the mined event or the error.
MineReturn ==
    /\ miner.pc \in {"resolved", "rejected"}
    /\ miner' = MinerIdle
    /\ UNCHANGED <<web, jobService, notes, stopped, receiver, posts, accounts, keychain, now,
                   isProcessing, sq, sched, pn, handed>>

(***************************************************************************)
(* The signing of one post step by step, with proof-of-work: sign, mine,   *)
(* sign again, persist.  SqSign above takes these steps as one.            *)
(***************************************************************************)

\* event.sign(signer): pubkey, id and signature are set from the content at
\* hand; the signature is over the id, with the signer's key.
SignWith(evt, nsec) ==
    LET id == getEventHash([pubkey |-> "pubkey of " \o nsec,
                            created_at |-> evt.created_at, kind |-> evt.kind,
                            tags |-> evt.tags, content |-> evt.content])
    IN  [id |-> id, pubkey |-> "pubkey of " \o nsec, created_at |-> evt.created_at,
         kind |-> evt.kind, tags |-> evt.tags, content |-> evt.content,
         sig |-> <<"sig", nsec, id>>]

\* buildTextNote(content) at createdAt: a kind 1 event without tags.
buildTextNote(content, createdAt) ==
    [created_at |-> createdAt, kind |-> 1, tags |-> <<>>, content |-> content]

\* buildTextNote, new NDKEvent, await event.sign(signer); with a difficulty
\* above 0 the call of mineEventPow(event, powDifficulty) starts the worker.
SqSignEvent(t) ==
    /\ sq[t].pc = "sign"
    /\ miner.pc = "idle"
    /\ LET content == notes[posts[SqPost(t)].note_id].content
           event == SignWith(buildTextNote(content, sq[t].created), sq[t].nsec)
       IN  IF PowBits > 0
           THEN /\ sq' = [sq EXCEPT ![t].pc = "mine", ![t].event = event]
                /\ miner' = [pc |-> "mining", serialised |-> event,
                             difficulty |-> PowBits, nonce |-> 0, mined |-> event]
           ELSE /\ sq' = [sq EXCEPT ![t].pc = "persist", ![t].event = event]
                /\ UNCHANGED miner
    /\ UNCHANGED <<web, jobService, notes, stopped, receiver, posts, accounts, keychain, now,
                   isProcessing, sched, pn, handed>>

\* A persist step that stores the mined event as the worker returned it.
SqPersistUnsigned(t) ==
    /\ sq[t].pc \in {"mine", "persist"}
    /\ sq[t].pc = "mine" => miner.pc = "resolved"
    /\ posts' = markAsSigned(posts, SqPost(t),
                             IF sq[t].pc = "mine" THEN miner.mined ELSE sq[t].event)
    /\ miner' = MinerIdle
    /\ SqAdvance(t)
    /\ UNCHANGED <<web, jobService, notes, stopped, receiver, accounts, keychain, now, sched, pn,
                   handed>>

\* The mining call resolved: finalEvent = new NDKEvent(undefined, mined),
\* await finalEvent.sign(signer), then await markAsSigned(post.id,
\* finalEvent.rawEvent()).  Without mining the signed event is stored.
SqPersist(t) ==
    /\ sq[t].pc \in {"mine", "persist"}
    /\ sq[t].pc = "mine" => miner.pc = "resolved"
    /\ posts' = markAsSigned(posts, SqPost(t),
                             IF sq[t].pc = "mine"
                             THEN SignWith(miner.mined, sq[t].nsec)
                             ELSE sq[t].event)
    /\ miner' = MinerIdle
    /\ SqAdvance(t)
    /\ UNCHANGED <<web, jobService, notes, stopped, receiver, accounts, keychain, now, sched, pn,
                   handed>>

\* The mining call rejected: the catch of the loop marks this post failed
\* and the loop goes on.
SqMineFailed(t) ==
    /\ sq[t].pc = "mine"
    /\ miner.pc = "rejected"
    /\ posts' = markAsFailed(posts, SqPost(t), SigningFailed(ErrMine))
    /\ miner' = MinerIdle
    /\ SqAdvance(t)
    /\ UNCHANGED <<web, jobService, notes, stopped, receiver, accounts, keychain, now, sched, pn,
                   handed>>

(***************************************************************************)
(* The deployments checked.  Account 1 is the active account, with its key *)
(* in the keychain and the direct channel as its default.  Account 2 is    *)
(* absent, or has no private key and no queue target, or has its key in    *)
(* the database column only.  Posts are rows as addPost schedules them.    *)
(***************************************************************************)
Account(id, present, nsec, method, target, active) ==
    [id |-> id, present |-> present, npub |-> "npub" \o ToString(id), nsec |-> nsec,
     publish_method |-> method, api_endpoint |-> NULL,
     nostrmq_target |-> target, relays |-> NULL, is_active |-> active]

FirstAccount == Account(1, TRUE, NULL, "direct", NULL, TRUE)
AbsentAccount == Account(2, FALSE, NULL, "direct", NULL, FALSE)
KeylessAccount == Account(2, TRUE, NULL, "nostrmq", NULL, FALSE)
DbKeyAccount == Account(2, TRUE, "nsec_db_2", "api", "mq_target_2", FALSE)

Deployment(second, rows) == [second |-> second, rows |-> rows]

\* A post is scheduled for the start (due at once) or for the end of the
\* time modelled.
DueTimes == {0, MaxTime}

\* One post: the direct and the API channel, due at once or later, on a
\* sound account, and the posts of an account that cannot sign or has no
\* queue target.
SinglePost ==
    {Deployment(AbsentAccount, <<NewPost(1, t, 1, m)>>) :
         t \in DueTimes, m \in {"direct", "api"}}
    \cup {Deployment(AbsentAccount, <<NewPost(1, 0, 2, "api")>>),
          Deployment(KeylessAccount, <<NewPost(1, 0, 2, "nostrmq")>>),
          Deployment(DbKeyAccount, <<NewPost(1, 0, 2, "nostrmq")>>)}

InitWith(deployments) ==
    /\ \E d \in deployments :
         /\ accounts = [a \in AccountIds |-> IF a = 1 THEN FirstAccount ELSE d.second]
         /\ posts = d.rows
    /\ keychain = [a \in AccountIds |-> IF a = 1 THEN "nsec_keychain_1" ELSE NULL]
    /\ now = 0
    /\ isProcessing = FALSE
    /\ sq = [t \in SqTasks |-> SqIdle]
    /\ sched = [t \in SchedTasks |-> SchedIdle]
    /\ pn = PnIdle
    /\ handed = [p \in PostIds |-> 0]
    /\ miner = MinerIdle
    /\ notes = Notes
    /\ web = WebIdle
    /\ jobService = JobServiceIdle
    /\ stopped = NotStopped
    /\ receiver = ReceiverIdle

Init == InitWith(SinglePost)

\* Two posts, of one account or of two, in either order of their ids and
\* due times; the second account is absent, has no key, or is sound.
TwoPosts ==
    {Deployment(second, <<NewPost(1, t1, a1, "api"), NewPost(2, t2, a2, "api")>>) :
         second \in {AbsentAccount, KeylessAccount, DbKeyAccount},
         a1 \in AccountIds, a2 \in AccountIds, t1 \in DueTimes, t2 \in DueTimes}

Next ==
    \/ SqCall
    \/ \E t \in SqTasks : SqFailAccount(t)
    \/ \E t \in SqTasks : SqMarkSigning(t)
    \/ \E t \in SqTasks : SqSign(t)
    \/ \E t \in SchedTasks : SchedStart(t)
    \/ \E t \in SchedTasks : SchedPublish(t)
    \/ \E t \in SchedTasks : SchedRecord(t)
    \/ \E t \in SchedTasks : SchedEventDetails(t)
    \/ \E t \in SchedTasks : SchedFetchPending(t)
    \/ \E p \in PostIds : PublishNowCall(p)
    \/ PublishNowPublish
    \/ PublishNowReturn
    \/ Tick

Spec == Init /\ [][Next]_vars

(***************************************************************************)
(* The Signing Queue alone, over batches of two posts.                     *)
(***************************************************************************)
InitSigning == InitWith(TwoPosts)

NextSigning ==
    \/ SqCall
    \/ \E t \in SqTasks : SqFailAccount(t)
    \/ \E t \in SqTasks : SqMarkSigning(t)
    \/ \E t \in SqTasks : SqSign(t)
    \/ Tick

SpecSigning == InitSigning /\ [][NextSigning]_vars

(***************************************************************************)
(* One Scheduler pass at a time over two due posts that the Signing Queue  *)
(* has signed or has not reached yet.                                      *)
(***************************************************************************)

\* The row of a post after a Signing Queue pass at time 0 signed it, or as
\* it was inserted when the account's key cannot be resolved or no pass
\* has reached it.
DueRow(accts, kc, id, accountId, publishMethod, signed) ==
    LET row == NewPost(id, 0, accountId, publishMethod)
        key == ResolveSigningKey(accts, kc, accountId)
    IN  IF signed /\ key.ok
        THEN markAsSigned(<<row>>, 1, SignedEvent(id, 0, key.nsec))[1]
        ELSE row

InitPublishing ==
    /\ keychain = [a \in AccountIds |-> IF a = 1 THEN "nsec_keychain_1" ELSE NULL]
    /\ \E second \in {KeylessAccount, DbKeyAccount} :
         accounts = [a \in AccountIds |-> IF a = 1 THEN FirstAccount ELSE second]
    /\ \E a1 \in AccountIds, a2 \in AccountIds, m1 \in Methods, m2 \in Methods,
          s1 \in BOOLEAN, s2 \in BOOLEAN :
         posts = <<DueRow(accounts, keychain, 1, a1, m1, s1),
                   DueRow(accounts, keychain, 2, a2, m2, s2)>>
    /\ now = 0
    /\ isProcessing = FALSE
    /\ sq = [t \in SqTasks |-> SqIdle]
    /\ sched = [t \in SchedTasks |-> SchedIdle]
    /\ pn = PnIdle
    /\ handed = [p \in PostIds |-> 0]
    /\ miner = MinerIdle
    /\ notes = Notes
    /\ web = WebIdle
    /\ jobService = JobServiceIdle
    /\ stopped = NotStopped
    /\ receiver = ReceiverIdle

NextPublishing ==
    \/ SchedStart("pass1")
    \/ SchedPublish("pass1")
    \/ SchedRecord("pass1")
    \/ SchedEventDetails("pass1")
    \/ SchedFetchPending("pass1")

SpecPublishing == InitPublishing /\ [][NextPublishing]_vars

(***************************************************************************)
(* The pipeline over two posts as they are created: post 1 by a request    *)
(* that names no channel, post 2 by a request that names one.              *)
(***************************************************************************)
UnnamedAndNamed ==
    {Deployment(second, <<schedulePostFromNote(1, 0, a1, NULL),
                          schedulePostFromNote(2, 0, a2, m)>>) :
         second \in {KeylessAccount, DbKeyAccount},
         a1 \in AccountIds, a2 \in AccountIds, m \in Methods}

InitChannels == InitWith(UnnamedAndNamed)

NextChannels ==
    \/ SqCall
    \/ \E t \in SqTasks : SqFailAccount(t)
    \/ \E t \in SqTasks : SqMarkSigning(t)
    \/ \E t \in SqTasks : SqSign(t)
    \/ SchedStart("pass1")
    \/ SchedPublish("pass1")
    \/ SchedRecord("pass1")
    \/ SchedEventDetails("pass1")
    \/ SchedFetchPending("pass1")

SpecChannels == InitChannels /\ [][NextChannels]_vars

(***************************************************************************)
(* The miner alone, called with signed text notes.                         *)
(***************************************************************************)
InitMiner ==
    /\ posts = <<>>
    /\ accounts = [a \in AccountIds |-> IF a = 1 THEN FirstAccount ELSE AbsentAccount]
    /\ keychain = [a \in AccountIds |-> IF a = 1 THEN "nsec_keychain_1" ELSE NULL]
    /\ now = 0
    /\ isProcessing = FALSE
    /\ sq = [t \in SqTasks |-> SqIdle]
    /\ sched = [t \in SchedTasks |-> SchedIdle]
    /\ pn = PnIdle
    /\ handed = [p \in PostIds |-> 0]
    /\ miner = MinerIdle
    /\ notes = Notes
    /\ web = WebIdle
    /\ jobService = JobServiceIdle
    /\ stopped = NotStopped
    /\ receiver = ReceiverIdle

NextMiner ==
    \/ MineCall
    \/ MineTry
    \/ MineError
    \/ MineExit
    \/ MineReturn

SpecMiner == InitMiner /\ [][NextMiner]_vars

\* The miner with its worker and its caller scheduled: a step that can be
\* taken is taken.
FairMiner == SpecMiner /\ WF_vars(NextMiner)

(***************************************************************************)
(* The Signing Queue with the steps of signing and mining, over batches of *)
(* two posts.                                                              *)
(***************************************************************************)
NextSignPow ==
    \/ SqCall
    \/ \E t \in SqTasks : SqFailAccount(t)
    \/ \E t \in SqTasks : SqMarkSigning(t)
    \/ \E t \in SqTasks : SqSignEvent(t)
    \/ MineTry
    \/ MineError
    \/ MineExit
    \/ \E t \in SqTasks : SqPersist(t)
    \/ \E t \in SqTasks : SqMineFailed(t)

SpecSignPow == InitSigning /\ [][NextSignPow]_vars

\* The steps of a signing pass after its fetch, and of the worker.
SignPowSteps ==
    \/ \E t \in SqTasks : SqFailAccount(t)
    \/ \E t \in SqTasks : SqMarkSigning(t)
    \/ \E t \in SqTasks : SqSignEvent(t)
    \/ MineTry
    \/ MineError
    \/ MineExit
    \/ \E t \in SqTasks : SqPersist(t)
    \/ \E t \in SqTasks : SqMineFailed(t)

\* A pass and its worker are scheduled: a step that can be taken is taken.
FairSignPow == SpecSignPow /\ WF_vars(SignPowSteps)

(***************************************************************************)
(* The Signing Queue and the keys: every account has its key in the        *)
(* keychain, in the database, in both or in neither, and the keychain is   *)
(* written while passes run.                                               *)
(***************************************************************************)

\* The keys a keychain entry of an account can hold.
KeychainKeys(a) == {"nsec_keychain_" \o ToString(a), "nsec_rotated_" \o ToString(a)}

\* storeNsecInKeychain(accountId, nsec)
storeNsecInKeychain(a) ==
    /\ \E nsec \in KeychainKeys(a) :
         /\ keychain[a] # nsec
         /\ keychain' = [keychain EXCEPT ![a] = nsec]
    /\ UNCHANGED <<web, jobService, notes, stopped, receiver, miner, posts, accounts, now,
                   isProcessing, sq, sched, pn, handed>>

\* deleteNsecFromKeychain(accountId)
deleteNsecFromKeychain(a) ==
    /\ keychain[a] # NULL
    /\ keychain' = [keychain EXCEPT ![a] = NULL]
    /\ UNCHANGED <<web, jobService, notes, stopped, receiver, miner, posts, accounts, now,
                   isProcessing, sq, sched, pn, handed>>

InitKeys ==
    /\ \E n1 \in {NULL, "nsec_db_1"}, n2 \in {NULL, "nsec_db_2"} :
         accounts = [a \in AccountIds |->
                        IF a = 1 THEN Account(1, TRUE, n1, "direct", NULL, TRUE)
                        ELSE Account(2, TRUE, n2, "api", "mq_target_2", FALSE)]
    /\ \E a1 \in AccountIds, a2 \in AccountIds :
         posts = <<NewPost(1, 0, a1, "api"), NewPost(2, 0, a2, "api")>>
    /\ keychain \in [AccountIds -> {NULL, "nsec_keychain_1", "nsec_keychain_2"}]
    /\ \A a \in AccountIds : keychain[a] \in {NULL} \cup KeychainKeys(a)
    /\ now = 0
    /\ isProcessing = FALSE
    /\ sq = [t \in SqTasks |-> SqIdle]
    /\ sched = [t \in SchedTasks |-> SchedIdle]
    /\ pn = PnIdle
    /\ handed = [p \in PostIds |-> 0]
    /\ miner = MinerIdle
    /\ notes = Notes
    /\ web = WebIdle
    /\ jobService = JobServiceIdle
    /\ stopped = NotStopped
    /\ receiver = ReceiverIdle

NextKeys ==
    \/ SqCall
    \/ \E t \in SqTasks : SqFailAccount(t)
    \/ \E t \in SqTasks : SqMarkSigning(t)
    \/ \E t \in SqTasks : SqSign(t)
    \/ \E a \in AccountIds : storeNsecInKeychain(a)
    \/ \E a \in AccountIds : deleteNsecFromKeychain(a)

SpecKeys == InitKeys /\ [][NextKeys]_vars

(***************************************************************************)
(* One pass of the Scheduler over two due posts with any due times, each   *)
(* signed or pending.                                                      *)
(***************************************************************************)
InitOrdering ==
    /\ keychain = [a \in AccountIds |-> IF a = 1 THEN "nsec_keychain_1" ELSE NULL]
    /\ accounts = [a \in AccountIds |-> IF a = 1 THEN FirstAccount ELSE DbKeyAccount]
    /\ \E a1 \in AccountIds, a2 \in AccountIds, m1 \in {"direct", "api"},
          m2 \in {"direct", "api"}, s1 \in BOOLEAN, s2 \in BOOLEAN,
          t1 \in Times, t2 \in Times :
         posts = <<[DueRow(accounts, keychain, 1, a1, m1, s1) EXCEPT !.scheduled_for = t1],
                   [DueRow(accounts, keychain, 2, a2, m2, s2) EXCEPT !.scheduled_for = t2]>>
    /\ now = MaxTime
    /\ isProcessing = FALSE
    /\ sq = [t \in SqTasks |-> SqIdle]
    /\ sched = [t \in SchedTasks |-> SchedIdle]
    /\ pn = PnIdle
    /\ handed = [p \in PostIds |-> 0]
    /\ miner = MinerIdle
    /\ notes = Notes
    /\ web = WebIdle
    /\ jobService = JobServiceIdle
    /\ stopped = NotStopped
    /\ receiver = ReceiverIdle

SpecOrdering == InitOrdering /\ [][NextPublishing]_vars

(***************************************************************************)
(* The Signing Queue, one pass of the Scheduler at a time and publishNow   *)
(* over two due posts.                                                     *)
(***************************************************************************)
TwoDuePosts ==
    {Deployment(second, <<NewPost(1, 0, 1, "api"), NewPost(2, 0, 2, "nostrmq")>>) :
         second \in {KeylessAccount, DbKeyAccount}}

InitFrame == InitWith(TwoDuePosts)

NextFrame ==
    \/ SqCall
    \/ \E t \in SqTasks : SqFailAccount(t)
    \/ \E t \in SqTasks : SqMarkSigning(t)
    \/ \E t \in SqTasks : SqSign(t)
    \/ SchedStart("pass1")
    \/ SchedPublish("pass1")
    \/ SchedRecord("pass1")
    \/ SchedEventDetails("pass1")
    \/ SchedFetchPending("pass1")
    \/ \E p \in PostIds : PublishNowCall(p)
    \/ PublishNowPublish
    \/ PublishNowReturn

SpecFrame == InitFrame /\ [][NextFrame]_vars

(***************************************************************************)
(* Stopping.  stop() of the Scheduler stops the cron task and closes the   *)
(* store handle of the Scheduler; stop() of the Signing Queue clears the   *)
(* interval and closes the handle of the Signing Queue.  A statement run   *)
(* on a closed handle fails, and the Promise of the store method rejects.  *)
(* The Publisher opens handles of its own.                                 *)
(***************************************************************************)

\* PostScheduler.stop()
SchedStop ==
    /\ ~stopped.scheduler
    /\ stopped' = [stopped EXCEPT !.scheduler = TRUE]
    /\ UNCHANGED <<web, jobService, notes, receiver, miner, posts, accounts, keychain, now,
                   isProcessing, sq, sched, pn, handed>>

\* SigningQueueService.stop()
SqStop ==
    /\ ~stopped.signingQueue
    /\ stopped' = [stopped EXCEPT !.signingQueue = TRUE]
    /\ UNCHANGED <<web, jobService, notes, receiver, miner, posts, accounts, keychain, now,
                   isProcessing, sq, sched, pn, handed>>

\* The cron task calls checkAndPublishPosts() while it is not stopped.
SchedTimer(t) == ~stopped.scheduler /\ SchedStart(t)

\* The interval calls processQueue() while it is not cleared.
SqTimer == ~stopped.signingQueue /\ SqCall

\* The store calls of a pass on an open handle.
SchedRecordOpen(t) == ~stopped.scheduler /\ SchedRecord(t)

SchedEventDetailsOpen(t) == ~stopped.scheduler /\ SchedEventDetails(t)

SchedFetchPendingOpen(t) == ~stopped.scheduler /\ SchedFetchPending(t)

SqFailAccountOpen(t) == ~stopped.signingQueue /\ SqFailAccount(t)

SqMarkSigningOpen(t) == ~stopped.signingQueue /\ SqMarkSigning(t)

SqSignOpen(t) == ~stopped.signingQueue /\ SqSign(t)

\* A store call of a pass of the Scheduler on the closed handle: the write
\* after the publish rejects, the markAsFailed of the catch rejects too and
\* the rejection leaves checkAndPublishPosts; the fetch of the legacy posts
\* rejects likewise.  Nothing is written.
SchedClosed(t) ==
    /\ stopped.scheduler
    /\ sched[t].pc \in {"record", "eventDetails", "fetchPending"}
    /\ sched' = [sched EXCEPT ![t] = SchedIdle]
    /\ UNCHANGED <<web, jobService, notes, stopped, receiver, miner, posts, accounts, keychain, now,
                   isProcessing, sq, pn, handed>>

\* A store call of a pass of the Signing Queue on the closed handle: it
\* rejects, the markAsFailed of the catch of the post and of the catch of the
\* account reject too, the outer catch logs and finally releases the flag.
SqClosed(t) ==
    /\ stopped.signingQueue
    /\ sq[t].pc # "idle"
    /\ sq' = [sq EXCEPT ![t] = SqIdle]
    /\ isProcessing' = FALSE
    /\ UNCHANGED <<web, jobService, notes, stopped, receiver, miner, posts, accounts, keychain, now,
                   sched, pn, handed>>

NextStop ==
    \/ SqTimer
    \/ \E t \in SqTasks : SqFailAccountOpen(t)
    \/ \E t \in SqTasks : SqMarkSigningOpen(t)
    \/ \E t \in SqTasks : SqSignOpen(t)
    \/ \E t \in SqTasks : SqClosed(t)
    \/ SchedTimer("pass1")
    \/ SchedPublish("pass1")
    \/ SchedRecordOpen("pass1")
    \/ SchedEventDetailsOpen("pass1")
    \/ SchedFetchPendingOpen("pass1")
    \/ SchedClosed("pass1")
    \/ SchedStop
    \/ SqStop

SpecStop == InitFrame /\ [][NextStop]_vars

(***************************************************************************)
(* The two loops running for ever: the interval of the Signing Queue and   *)
(* the cron task of the Scheduler keep calling, every call made by a pass  *)
(* returns, and time passes.                                               *)
(***************************************************************************)
TwoPostsDueOrLater ==
    {Deployment(second, <<NewPost(1, t1, 1, "api"), NewPost(2, t2, 2, "nostrmq")>>) :
         second \in {KeylessAccount, DbKeyAccount}, t1 \in DueTimes, t2 \in DueTimes}

InitPipeline == InitWith(TwoPostsDueOrLater)

\* The steps of a pass of the Signing Queue after its fetch.
SigningPassSteps ==
    \/ \E t \in SqTasks : SqFailAccount(t)
    \/ \E t \in SqTasks : SqMarkSigning(t)
    \/ \E t \in SqTasks : SqSign(t)

\* cron.schedule(checkInterval, () => checkAndPublishPosts()) and the steps
\* of a pass.
SchedulerLoop ==
    \/ SchedStart("pass1")
    \/ SchedPublish("pass1")
    \/ SchedRecord("pass1")
    \/ SchedEventDetails("pass1")
    \/ SchedFetchPending("pass1")

NextPipeline ==
    \/ SqCall
    \/ SigningPassSteps
    \/ SchedulerLoop
    \/ Tick

\* A call of processQueue() changes the state: no pass is running and there
\* are posts to sign.  This is ENABLED <<SqCall>>_vars.
SqCallChangesState ==
    /\ ~SqBusy
    /\ SqRunning # SqTasks
    /\ Len(getPostsReadyForSigning(posts, now)) > 0

\* The interval keeps calling processQueue() (weak fairness of SqCall, with
\* its enabling condition written out), the calls a pass awaits return, the
\* cron task keeps calling checkAndPublishPosts(), and time passes.
FairPipeline ==
    /\ InitPipeline /\ [][NextPipeline]_vars
    /\ ([]<>(~SqCallChangesState) \/ []<><<SqCall>>_vars)
    /\ WF_vars(SigningPassSteps)
    /\ WF_vars(SchedulerLoop)
    /\ WF_vars(Tick)

(***************************************************************************)
(* One pass of the Scheduler over two due posts of the API channel, with   *)
(* and without an endpoint of their own, on accounts with and without a    *)
(* configured endpoint.                                                    *)
(***************************************************************************)
PostEndpoint == "https://post.example/post/note"

AccountEndpoint(a) == "https://account" \o ToString(a) \o ".example/post/note"

InitEndpoints ==
    /\ keychain = [a \in AccountIds |-> IF a = 1 THEN "nsec_keychain_1" ELSE NULL]
    /\ \E e1 \in {NULL, AccountEndpoint(1)}, e2 \in {NULL, AccountEndpoint(2)} :
         accounts = [a \in AccountIds |->
                        IF a = 1 THEN [FirstAccount EXCEPT !.api_endpoint = e1]
                        ELSE [DbKeyAccount EXCEPT !.api_endpoint = e2]]
    /\ \E a1 \in AccountIds, a2 \in AccountIds, s1 \in BOOLEAN, s2 \in BOOLEAN,
          p1 \in {NULL, PostEndpoint}, p2 \in {NULL, PostEndpoint} :
         posts = <<[DueRow(accounts, keychain, 1, a1, "api", s1) EXCEPT !.api_endpoint = p1],
                   [DueRow(accounts, keychain, 2, a2, "api", s2) EXCEPT !.api_endpoint = p2]>>
    /\ now = 0
    /\ isProcessing = FALSE
    /\ sq = [t \in SqTasks |-> SqIdle]
    /\ sched = [t \in SchedTasks |-> SchedIdle]
    /\ pn = PnIdle
    /\ handed = [p \in PostIds |-> 0]
    /\ miner = MinerIdle
    /\ notes = Notes
    /\ web = WebIdle
    /\ jobService = JobServiceIdle
    /\ stopped = NotStopped
    /\ receiver = ReceiverIdle

SpecEndpoints == InitEndpoints /\ [][NextPublishing]_vars

(***************************************************************************)
(* The Signing Queue and one pass of the Scheduler over two due posts of   *)
(* the API channel, each pending, signed by the Signing Queue, or a row in *)
(* status signed whose signed_event is NULL or is not JSON.                *)
(***************************************************************************)
PayloadKinds == {"pending", "signed", "null", "garbled"}

PayloadRow(accts, kc, id, accountId, kind) ==
    CASE kind = "pending" -> DueRow(accts, kc, id, accountId, "api", FALSE)
      [] kind = "signed" -> DueRow(accts, kc, id, accountId, "api", TRUE)
      [] kind = "null" -> [NewPost(id, 0, accountId, "api") EXCEPT !.status = "signed"]
      [] OTHER -> [NewPost(id, 0, accountId, "api") EXCEPT
                      !.status = "signed", !.signed_event = <<Garbled>>]

InitPayload ==
    /\ keychain = [a \in AccountIds |-> IF a = 1 THEN "nsec_keychain_1" ELSE NULL]
    /\ \E second \in {KeylessAccount, DbKeyAccount} :
         accounts = [a \in AccountIds |-> IF a = 1 THEN FirstAccount ELSE second]
    /\ \E a1 \in AccountIds, a2 \in AccountIds, k1 \in PayloadKinds, k2 \in PayloadKinds :
         posts = <<PayloadRow(accounts, keychain, 1, a1, k1),
                   PayloadRow(accounts, keychain, 2, a2, k2)>>
    /\ now = 0
    /\ isProcessing = FALSE
    /\ sq = [t \in SqTasks |-> SqIdle]
    /\ sched = [t \in SchedTasks |-> SchedIdle]
    /\ pn = PnIdle
    /\ handed = [p \in PostIds |-> 0]
    /\ miner = MinerIdle
    /\ notes = Notes
    /\ web = WebIdle
    /\ jobService = JobServiceIdle
    /\ stopped = NotStopped
    /\ receiver = ReceiverIdle

SpecPayload == InitPayload /\ [][NextChannels]_vars

(***************************************************************************)
(* The receiver of queue responses.  initializeNostrMQReceiver() is called *)
(* by PostScheduler.start() and, on demand, by a publishToNostr() on the   *)
(* queue channel (from a pass of the Scheduler or from publishNow) that    *)
(* finds receiveSubscription unset; stopNostrMQReceiver() is called by     *)
(* PostScheduler.stop().  A subscription is named after the call that      *)
(* opened it, and a caller is followed while no subscription it opened is  *)
(* open.                                                                   *)
(***************************************************************************)

\* initializeNostrMQReceiver() up to its await: it returns when
\* receiveSubscription is set, else it awaits messageTracker.initialize().
InitializeCall(c) ==
    /\ receiver.pc[c] = "idle"
    /\ c \notin receiver.open
    /\ receiver' = IF receiver.receiveSubscription # NULL THEN receiver
                   ELSE [receiver EXCEPT !.pc[c] = "awaitTracker"]
    /\ UNCHANGED <<web, jobService, notes, stopped, miner, posts, accounts, keychain, now,
                   isProcessing, sq, sched, pn, handed>>

\* messageTracker.initialize() has settled: receiveSubscription =
\* receive({...}), or the catch that logs when it threw.
InitializeResume(c) ==
    /\ receiver.pc[c] = "awaitTracker"
    /\ \E threw \in BOOLEAN :
         receiver' = IF threw THEN [receiver EXCEPT !.pc[c] = "idle"]
                     ELSE [receiver EXCEPT !.pc[c] = "idle",
                                           !.open = @ \cup {c},
                                           !.receiveSubscription = c]
    /\ UNCHANGED <<web, jobService, notes, stopped, miner, posts, accounts, keychain, now,
                   isProcessing, sq, sched, pn, handed>>

\* stopNostrMQReceiver(): closes the subscription receiveSubscription
\* refers to, if any, and unsets it.
stopNostrMQReceiver ==
    /\ receiver' = IF receiver.receiveSubscription = NULL THEN receiver
                   ELSE [receiver EXCEPT !.open = @ \ {receiver.receiveSubscription},
                                         !.receiveSubscription = NULL]
    /\ UNCHANGED <<web, jobService, notes, stopped, miner, posts, accounts, keychain, now,
                   isProcessing, sq, sched, pn, handed>>

NextReceiver ==
    \/ \E c \in InitCallers : InitializeCall(c)
    \/ \E c \in InitCallers : InitializeResume(c)
    \/ stopNostrMQReceiver

SpecReceiver == Init /\ [][NextReceiver]_vars

(***************************************************************************)
(* POST /api/posts of the web server: the post is stored, then published   *)
(* at once through the Scheduler or left to the Signing Queue.             *)
(***************************************************************************)

\* The requests that are followed: scheduledFor in milliseconds from the
\* handler's new Date() (just passed, now, the two minutes, one more
\* millisecond, ten minutes), the publishMethod and the accountId of the body
\* (0: the body names no account).
RequestOffsets == {0 - 1, 0, 2 * 60 * 1000, 2 * 60 * 1000 + 1, 10 * 60 * 1000}
RequestMethods == {"api", NULL}
RequestAccounts == {0, 2}

\* timeDiff <= 2 * 60 * 1000
IsImmediate(timeDiff) == timeDiff <= 2 * 60 * 1000

\* publishMethod === 'nostrmq' ? 'nostrmq' : (publishMethod === 'api' ? 'api' : 'direct')
RequestMethod(publishMethod) ==
    IF publishMethod = "nostrmq" THEN "nostrmq"
    ELSE IF publishMethod = "api" THEN "api" ELSE "direct"

\* The due time as the store compares it with the clock: a scheduledFor of
\* this instant is due, a later one is due once the clock has moved on (a
\* step of the clock is longer than every offset asked for).
StoredDueTime(timeDiff) == IF timeDiff = 0 THEN now ELSE now + 1

\* The handler up to `await this.db.addPost(...)`: a scheduledFor in the
\* past is answered with status 400 and nothing is stored; else addPost
\* creates the note (accountId || 1) and schedules the post from it under
\* the next id.
WebAddPost(timeDiff, publishMethod, accountId) ==
    /\ web.pc \in {"idle", "responded"}
    /\ PostIds \ DOMAIN posts # {}
    /\ LET id == CHOOSE p \in PostIds \ DOMAIN posts :
                     \A q \in PostIds \ DOMAIN posts : p <= q
           request == [WebIdle EXCEPT !.scheduler = web.scheduler]
       IN  IF timeDiff < 0
           THEN /\ web' = [request EXCEPT !.pc = "responded", !.status = 400]
                /\ UNCHANGED <<posts, notes>>
           ELSE /\ notes' = notes @@ (id :> Notes[id])
                /\ posts' = posts @@
                       (id :> schedulePostFromNote(id, StoredDueTime(timeDiff),
                                  IF accountId # 0 THEN accountId ELSE 1,
                                  RequestMethod(publishMethod)))
                /\ web' = [request EXCEPT !.pc = "added", !.post = id,
                                          !.isImmediate = IsImmediate(timeDiff)]
    /\ UNCHANGED <<jobService, stopped, receiver, miner, accounts, keychain, now,
                   isProcessing, sq, sched, pn, handed>>

\* The handler after addPost has resolved: an immediate post is handed to
\* scheduler.publishNow(id) if the server was given a scheduler, and the
\* handler awaits it; a later post makes triggerSigningQueue() invoke a
\* signing pass, which is not awaited.  Without the await the response
\* follows in the same turn.
WebAfterAddPost ==
    /\ web.pc = "added"
    /\ web.isImmediate /\ web.scheduler => pn.pc = "idle"
    /\ IF web.isImmediate
       THEN /\ IF web.scheduler
               THEN /\ pn' = PublishNowEntered(web.post)
                    /\ web' = [web EXCEPT !.pc = "awaiting", !.called = TRUE]
               ELSE /\ web' = [web EXCEPT !.pc = "responded", !.status = 200]
                    /\ UNCHANGED pn
            /\ UNCHANGED <<isProcessing, sq>>
       ELSE /\ processQueue
            /\ web' = [web EXCEPT !.pc = "responded", !.status = 200,
                                  !.triggered = TRUE]
            /\ UNCHANGED pn
    /\ UNCHANGED <<jobService, notes, stopped, receiver, miner, posts, accounts, keychain,
                   now, sched, handed>>

\* publishNow has returned or thrown: the catch of the handler logs the
\* error, and res.json answers with the id in both cases.
WebRespond ==
    /\ web.pc = "awaiting"
    /\ pn.pc = "return"
    /\ pn' = PnIdle
    /\ web' = [web EXCEPT !.pc = "responded", !.status = 200, !.result = pn.result]
    /\ UNCHANGED <<jobService, notes, stopped, receiver, miner, posts, accounts, keychain,
                   now, isProcessing, sq, sched, handed>>

\* The daemon (web server with scheduler) or the `web` mode of index.ts
\* (web server without), an empty store, the second account without a key.
InitWeb ==
    /\ accounts = [a \in AccountIds |-> IF a = 1 THEN FirstAccount ELSE KeylessAccount]
    /\ posts = <<>>
    /\ notes = <<>>
    /\ \E scheduler \in BOOLEAN : web = [WebIdle EXCEPT !.scheduler = scheduler]
    /\ keychain = [a \in AccountIds |-> IF a = 1 THEN "nsec_keychain_1" ELSE NULL]
    /\ now = 0
    /\ isProcessing = FALSE
    /\ sq = [t \in SqTasks |-> SqIdle]
    /\ sched = [t \in SchedTasks |-> SchedIdle]
    /\ pn = PnIdle
    /\ handed = [p \in PostIds |-> 0]
    /\ miner = MinerIdle
    /\ stopped = NotStopped
    /\ receiver = ReceiverIdle
    /\ jobService = JobServiceIdle

NextWeb ==
    \/ \E timeDiff \in RequestOffsets, publishMethod \in RequestMethods,
          accountId \in RequestAccounts :
          WebAddPost(timeDiff, publishMethod, accountId)
    \/ WebAfterAddPost
    \/ PublishNowPublish
    \/ WebRespond
    \/ SqCall
    \/ \E t \in SqTasks : SqFailAccount(t)
    \/ \E t \in SqTasks : SqMarkSigning(t)
    \/ \E t \in SqTasks : SqSign(t)
    \/ Tick

SpecWeb == InitWeb /\ [][NextWeb]_vars

(***************************************************************************)
(* The background job service: jobs are queued with a priority and a retry *)
(* limit, and the 5 s interval runs them one at a time.                    *)
(***************************************************************************)

\* The ids of the jobs that are followed; generateJobId(type) gives every
\* job an id of its own, and the Map keeps the jobs in the order queued.
JobIds == {1, 2, 3}

\* The calls of queueJob that are followed, as <<priority, maxRetries>>:
\* queueHourlyStatsCollection and queueManualStatsRefresh (maxRetries
\* defaults to 3), and queueJob with the priority of a migration and one
\* retry, or with the default priority and no retry.
QueueRequests == {<<1, 3>>, <<10, 3>>, <<5, 1>>, <<0, 0>>}

\* The id the next job gets: ids are not used again.
NextJobId == jobService.lastId + 1

\* getJobsByStatus(status).
getJobsByStatus(status) ==
    {j \in DOMAIN jobService.jobs : jobService.jobs[j].status = status}

\* A choice that takes the queued job that was queued first, whatever its
\* priority.
getNextJobFifo ==
    LET queuedJobs == getJobsByStatus("queued")
    IN  IF queuedJobs = {} THEN 0
        ELSE CHOOSE j \in queuedJobs : \A k \in queuedJobs : j <= k

\* getNextJob(): the queued jobs sorted by priority (desc), then by
\* created_at (asc); the sort is stable, so jobs equal in both stay in the
\* order they were queued.  0: no job is queued.
getNextJob ==
    LET queuedJobs == getJobsByStatus("queued")
        Before(a, b) ==
            \/ a.priority > b.priority
            \/ /\ a.priority = b.priority
               /\ \/ a.created_at < b.created_at
                  \/ a.created_at = b.created_at /\ a.id <= b.id
    IN  IF queuedJobs = {} THEN 0
        ELSE CHOOSE j \in queuedJobs :
                 \A k \in queuedJobs : Before(jobService.jobs[j], jobService.jobs[k])

\* A guard that lets every call of processNextJob through.
JobsNeverBusy == FALSE

\* if (this.processingJob || !this.isRunning) return
JobsBusy == jobService.processingJob # 0 \/ ~jobService.isRunning

\* A test that lets a job be retried once more than its limit.
MayRetryOnceMore(job) == job.retry_count <= job.max_retries

\* nextJob.retry_count < nextJob.max_retries
MayRetry(job) == job.retry_count < job.max_retries

\* Nothing outside the job service is touched by it.
JobsFrame ==
    UNCHANGED <<web, notes, stopped, receiver, miner, posts, accounts, keychain,
                isProcessing, sq, sched, pn, handed>>

\* start(): a no-op if the service is running.
JobsStart ==
    /\ jobService' = [jobService EXCEPT !.isRunning = TRUE]
    /\ UNCHANGED now
    /\ JobsFrame

\* stop(): a no-op if the service is not running; the job in progress is
\* left to finish.
JobsStop ==
    /\ jobService' = [jobService EXCEPT !.isRunning = FALSE]
    /\ UNCHANGED now
    /\ JobsFrame

\* queueJob(type, data, priority, maxRetries).  executions counts the calls
\* of executeJob(job), for the properties.
queueJob(priority, maxRetries) ==
    /\ NextJobId \in JobIds
    /\ jobService' = [jobService EXCEPT !.lastId = NextJobId, !.jobs = @ @@
           (NextJobId :> [id |-> NextJobId, status |-> "queued", created_at |-> now,
                          priority |-> priority, retry_count |-> 0,
                          max_retries |-> maxRetries, completed_at |-> NoTime,
                          error |-> NULL, executions |-> 0])]
    /\ UNCHANGED now
    /\ JobsFrame

\* processNextJob() up to `await this.executeJob(nextJob)`, called by the
\* interval: nothing happens while a job is processed, after stop(), or
\* with no job queued; else the job chosen is processingJob and running.
processNextJob ==
    /\ IF JobsBusy \/ getNextJob = 0
       THEN UNCHANGED jobService
       ELSE jobService' = [jobService EXCEPT
                !.processingJob = getNextJob,
                !.jobs[getNextJob].status = "running",
                !.jobs[getNextJob].executions = @ + 1]
    /\ UNCHANGED now
    /\ JobsFrame

\* executeJob(nextJob) has returned (completed) or thrown: a job below its
\* retry limit goes back to queued with retry_count + 1, else it is failed
\* with the error's message; finally processingJob = null.
JobSettles(j, threw) ==
    /\ j \in getJobsByStatus("running")
    /\ LET job == jobService.jobs[j]
       IN  jobService' = [jobService EXCEPT
               !.processingJob = 0,
               !.jobs[j] =
                   IF ~threw
                   THEN [job EXCEPT !.status = "completed", !.completed_at = now]
                   ELSE IF MayRetry(job)
                   THEN [job EXCEPT !.retry_count = @ + 1, !.status = "queued"]
                   ELSE [job EXCEPT !.status = "failed", !.completed_at = now,
                                    !.error = "job error"]]
    /\ UNCHANGED now
    /\ JobsFrame

\* cleanupOldJobs(maxAgeHours): the completed and failed jobs that ended
\* before the cutoff are deleted.
cleanupOldJobs(cutoffTime) ==
    /\ cutoffTime <= now
    /\ LET old == {j \in DOMAIN jobService.jobs :
                      /\ jobService.jobs[j].status \in {"completed", "failed"}
                      /\ jobService.jobs[j].completed_at # NoTime
                      /\ jobService.jobs[j].completed_at < cutoffTime}
       IN  /\ old # {}
           /\ jobService' = [jobService EXCEPT !.jobs =
                  [j \in DOMAIN jobService.jobs \ old |-> jobService.jobs[j]]]
    /\ UNCHANGED now
    /\ JobsFrame

InitJobs == InitWith({Deployment(AbsentAccount, <<>>)})

NextJobs ==
    \/ JobsStart
    \/ JobsStop
    \/ \E request \in QueueRequests : queueJob(request[1], request[2])
    \/ processNextJob
    \/ \E j \in JobIds, threw \in BOOLEAN : JobSettles(j, threw)
    \/ \E cutoffTime \in Times : cleanupOldJobs(cutoffTime)
    \/ Tick

SpecJobs == InitJobs /\ [][NextJobs]_vars

(***************************************************************************)
(* The lifecycle properties.                                               *)
(***************************************************************************)

\* The status changes of the lifecycle: pending -> signing -> signed ->
\* published, pending -> published on the legacy path, and the step into
\* failed from pending, signing or signed.
ForwardTransitions ==
    {<<"pending", "signing">>, <<"signing", "signed">>, <<"signed", "published">>,
     <<"pending", "published">>,
     <<"pending", "failed">>, <<"signing", "failed">>, <<"signed", "failed">>}

\* C1: every change of a post's status is one of the forward transitions of
\* the lifecycle; no change leaves published or failed, none returns to
\* pending, none goes from signing or signed back to an earlier status.
C1_TransitionsOnlyForward ==
    [][\A p \in DOMAIN posts :
          posts'[p].status # posts[p].status
              => <<posts[p].status, posts'[p].status>> \in ForwardTransitions]_vars

\* C2: under every interleaving of the Signing Queue, the Scheduler passes
\* and publishNow, a post is handed to a delivery channel at most once.
C2_DeliveredAtMostOnce ==
    \A p \in PostIds : handed[p] <= 1

\* C3: a signed payload, once stored, is never written again: every step
\* leaves the signed_event of a post that has one as it is.
C3_PayloadWrittenOnce ==
    [][\A p \in DOMAIN posts :
          posts[p].signed_event # NoEvent
              => posts'[p].signed_event = posts[p].signed_event]_vars

\* C3: a post carries its payload, time has passed since it was signed and
\* the Scheduler has since delivered the post twice and recorded it.
C3_Witness ==
    \E p \in DOMAIN posts :
        /\ posts[p].signed_event # NoEvent
        /\ posts[p].signed_event[1].created_at < now
        /\ posts[p].status = "published"
        /\ handed[p] = 2

\* C4: in every state, a post whose status is published has a non-null
\* event id.
C4_PublishedHasEventId ==
    \A p \in DOMAIN posts :
        posts[p].status = "published" => posts[p].event_id # NULL

\* C5: in every state, a post whose status is failed has a non-null error
\* message.
C5_FailedHasErrorMessage ==
    \A p \in DOMAIN posts :
        posts[p].status = "failed" => posts[p].error_message # NULL

\* C5: a post failed in delivery and a post failed in signing.
C5_Witness ==
    \E p \in DOMAIN posts :
        /\ posts[p].status = "failed"
        /\ handed[p] = 1
        /\ posts[p].error_message \in {ErrHttp, ErrMqSend, ErrRelays}

\* A Scheduler pass t takes the step that records the outcome of its
\* delivery of a pre-signed post on the direct channel.
RecordsDirect(t) ==
    /\ sched[t].pc = "record"
    /\ sched'[t].pc # "record"
    /\ sched[t].phase = "signed"
    /\ sched[t].out.method = "direct"
    /\ sched[t].out.invoked

\* C6: when the direct channel delivered a pre-signed post to zero relays,
\* the pass records the post as failed with a non-empty error message.
C6_ZeroRelaysFails ==
    [][\A t \in SchedTasks :
          RecordsDirect(t) /\ sched[t].out.acks = 0
              => /\ posts'[SchedPost(t).id].status = "failed"
                 /\ posts'[SchedPost(t).id].error_message \notin {NULL, ""}]_vars

\* C7: when at least one relay acknowledged a pre-signed post on the direct
\* channel, the pass records the post as published and goes on to store a
\* non-null event id, partial success included.
C7_SomeRelayPublishes ==
    [][\A t \in SchedTasks :
          /\ RecordsDirect(t) /\ sched[t].out.acks >= 1
                => /\ posts'[SchedPost(t).id].status = "published"
                   /\ sched'[t].pc = "eventDetails"
                   /\ sched'[t].out.eventId # NULL
          /\ sched[t].pc = "eventDetails" /\ sched'[t].pc # "eventDetails"
                => posts'[SchedPost(t).id].event_id = sched[t].out.eventId]_vars

\* C7: one relay of NumRelays acknowledged and the pass has marked the post
\* published.
C7_Witness ==
    \E t \in SchedTasks :
        /\ sched[t].pc = "eventDetails"
        /\ sched[t].out.method = "direct"
        /\ sched[t].out.acks = 1
        /\ sched[t].out.acks < NumRelays
        /\ posts[SchedPost(t).id].status = "published"

\* publishNow is called for post p and has got past getPost.
PublishNowCalled(p) ==
    /\ pn.pc = "idle"
    /\ pn'.pc # "idle"
    /\ pn'.post = p

\* C8: publishNow on a post whose status is published is rejected with an
\* error; nothing is delivered and no field of the post changes.
C8_PublishedRejected ==
    [][\A p \in DOMAIN posts :
          PublishNowCalled(p) /\ posts[p].status = "published"
              => /\ pn'.pc = "return"
                 /\ pn'.result = NotPending(posts[p])
                 /\ posts' = posts
                 /\ handed' = handed]_vars

\* C8: a call for a published post has returned its error.
C8_Witness ==
    /\ pn.pc = "return"
    /\ pn.post \in DOMAIN posts
    /\ posts[pn.post].status = "published"
    /\ pn.result = NotPending(posts[pn.post])
    /\ ~pn.out.invoked

\* C9: publishNow accepts every post whose status is not published and goes
\* on to deliver it.
C9_AcceptsNotPublished ==
    [][\A p \in DOMAIN posts :
          PublishNowCalled(p) /\ posts[p].status # "published"
              => pn'.pc = "publish"]_vars

\* C10: when the delivery of publishNow raises an error the post is marked
\* failed with that error's message and the caller gets the same error;
\* when it returns, the post is marked published and the caller gets none.
C10_OutcomeReturned ==
    [][pn.pc = "publish" /\ pn'.pc # "publish"
          => IF pn'.out.ok
             THEN /\ posts'[pn.post].status = "published"
                  /\ posts'[pn.post].error_message = posts[pn.post].error_message
                  /\ pn'.pc = "return" => pn'.result = "ok"
             ELSE /\ posts'[pn.post].status = "failed"
                  /\ posts'[pn.post].error_message = pn'.out.error
                  /\ pn'.pc = "return"
                  /\ pn'.result = pn'.out.error]_vars

\* C10: a call whose delivery was attempted and failed has returned.
C10_Witness ==
    /\ pn.pc = "return"
    /\ pn.out.invoked
    /\ ~pn.out.ok
    /\ posts[pn.post].status = "failed"
    /\ posts[pn.post].error_message = pn.result

\* C11: at most one processQueue() pass is in progress at any time, and the
\* busy flag is set exactly while a pass is running, so that an invocation
\* made during a pass starts nothing.
C11_OnePassAtATime ==
    /\ Cardinality(SqRunning) <= 1
    /\ isProcessing <=> SqRunning # {}

\* C11: a pass is in progress, between marking a post as signing and
\* signing it, with the flag set: an invocation now is turned away.
C11_Witness ==
    \E t \in SqTasks :
        /\ sq[t].pc = "sign"
        /\ isProcessing
        /\ posts[SqPost(t)].status = "signing"

(***************************************************************************)
(* Properties of a Signing Queue pass (SpecSigning).                       *)
(***************************************************************************)

\* The account of post p has no row.
AccountMissing(p) == ~accounts[posts[p].account_id].present

\* The account of post p has a row and no private key, neither in the
\* keychain nor in its nsec column.
AccountKeyless(p) ==
    /\ accounts[posts[p].account_id].present
    /\ keychain[posts[p].account_id] = NULL
    /\ accounts[posts[p].account_id].nsec = NULL

\* A pass has run and none is in progress.
SigningPassDone ==
    /\ SqRunning = {}
    /\ \E p \in DOMAIN posts : posts[p].status # "pending"

\* C12: the posts of an account that is missing or has no private key are
\* never signed and end failed with a message that names the cause; the
\* posts of any other account in the same pass are signed, or failed for
\* their own signing error only, in whichever order the accounts come.
C12_AccountIsolation ==
    \A p \in DOMAIN posts :
        /\ AccountMissing(p) \/ AccountKeyless(p)
              => /\ posts[p].status \in {"pending", "failed"}
                 /\ posts[p].signed_event = NoEvent
                 /\ SigningPassDone => posts[p].status = "failed"
        /\ AccountMissing(p) /\ posts[p].status = "failed"
              => posts[p].error_message =
                     "Signing failed: Account "
                         \o ToString(posts[p].account_id) \o " not found"
        /\ AccountKeyless(p) /\ posts[p].status = "failed"
              => posts[p].error_message =
                     "Signing failed: No private key found for account "
                         \o ToString(posts[p].account_id)
        /\ ~AccountMissing(p) /\ ~AccountKeyless(p)
              => /\ posts[p].status = "failed"
                       => posts[p].error_message = SigningFailed(ErrSign)
                 /\ SigningPassDone => posts[p].status \in {"signed", "failed"}

\* C12: a pass has handled the post of a keyless account first and then
\* signed the post of a sound account.
C12_Witness ==
    /\ DOMAIN posts = {1, 2}
    /\ SigningPassDone
    /\ AccountKeyless(1)
    /\ posts[1].status = "failed"
    /\ posts[1].scheduled_for <= posts[2].scheduled_for
    /\ posts[2].account_id # posts[1].account_id
    /\ posts[2].status = "signed"

Records(t) == sched[t].pc = "record"

\* The pass is done with the post it was working on.
LeavesPost(t) ==
    /\ sched[t].pc \in {"record", "eventDetails"}
    /\ sched'[t].pc \notin {"record", "eventDetails"}

\* C14: in a Scheduler pass every post fetched is attempted exactly once
\* and ends published or failed by its own outcome: the write after an
\* attempt touches that post alone and follows the attempt's outcome; after
\* a success or a failure alike the pass goes on to the next post fetched;
\* no post is handed to a channel twice, and when the pass is over every
\* due post is published or failed.
C14_FailureNeverAbortsPass ==
    [][/\ Records("pass1")
            => /\ posts'[SchedPost("pass1").id].status =
                      IF sched["pass1"].out.ok THEN "published" ELSE "failed"
               /\ \A q \in DOMAIN posts \ {SchedPost("pass1").id} : posts'[q] = posts[q]
       /\ LeavesPost("pass1")
            => IF sched["pass1"].i < Len(sched["pass1"].list)
               THEN /\ sched'["pass1"].pc = "publish"
                    /\ sched'["pass1"].list = sched["pass1"].list
                    /\ sched'["pass1"].i = sched["pass1"].i + 1
               ELSE sched'["pass1"].pc \in {"idle", "fetchPending"}
       /\ \A p \in DOMAIN posts : handed'[p] <= 1
       /\ sched'["pass1"].pc = "idle" /\ sched["pass1"].pc # "idle"
            => \A p \in DOMAIN posts : posts'[p].status \in {"published", "failed"}
      ]_vars

\* C14: a pass fetched two signed posts; the delivery of the first failed
\* and the second was delivered and published after it.
C14_Witness ==
    /\ sched["pass1"].pc = "idle"
    /\ posts[1].signed_event # NoEvent /\ posts[2].signed_event # NoEvent
    /\ posts[1].status = "failed" /\ handed[1] = 1
    /\ posts[2].status = "published" /\ handed[2] = 1

\* C15: a failed post is never retried: once its status is failed, no
\* Signing Queue step signs it and no Scheduler step hands it to a delivery
\* channel.
C15_FailedNeverRetried ==
    [][\A p \in DOMAIN posts :
          posts[p].status = "failed"
              => /\ pn' = pn => handed'[p] = handed[p]
                 /\ posts'[p].signed_event = posts[p].signed_event
                 /\ posts'[p].status \notin {"signing", "signed"}]_vars

\* The publish call of the pass met a non-2xx answer on the API channel.
ApiRefused(out) == out.method = "api" /\ out.invoked /\ ~out.ok

\* C16: on the API channel a non-2xx answer is an error whose message
\* carries the status and the body of the response; the Scheduler marks the
\* post failed with that message and does not mark it published.
C16_HttpErrorRecorded ==
    [][/\ ApiRefused(sched'["pass1"].out)
            => sched'["pass1"].out.error =
                   "Failed to publish: " \o ToString(HttpFailure.status)
                       \o " - " \o HttpFailure.text
       /\ Records("pass1") /\ ApiRefused(sched["pass1"].out)
            => /\ posts'[SchedPost("pass1").id].status = "failed"
               /\ posts'[SchedPost("pass1").id].error_message =
                      "Failed to publish: " \o ToString(HttpFailure.status)
                          \o " - " \o HttpFailure.text
               /\ posts'[SchedPost("pass1").id].published_at = NoTime
      ]_vars

\* C16: a signed post went to the API endpoint, which answered 500, and the
\* pass has recorded the failure.
C16_Witness ==
    /\ sched["pass1"].pc = "idle"
    /\ posts[1].signed_event # NoEvent
    /\ posts[1].publish_method = "api"
    /\ handed[1] = 1
    /\ posts[1].status = "failed"
    /\ posts[1].error_message = "Failed to publish: 500 - relay error"

\* The event id a 2xx API answer determines for a post: the first of the
\* body's eventId, event_id and id fields and the bare 64-character body,
\* else the id of the payload signed locally.
ExpectedEventId(body, post) ==
    IF body.eventId # NULL THEN body.eventId
    ELSE IF body.event_id # NULL THEN body.event_id
    ELSE IF body.id # NULL THEN body.id
    ELSE IF body.bare # NULL THEN body.bare
    ELSE IF post.signed_event # NoEvent THEN post.signed_event[1].id
    ELSE post.event_id

\* C17: when a pass is done with a post that the API endpoint accepted, the
\* post is published and its event id is the one the answer determines; a
\* 200 answer with the body {"id":"abc123"} leaves the event id abc123.
C17_EventIdFromResponse ==
    [][LeavesPost("pass1") /\ sched["pass1"].out.ok /\ sched["pass1"].out.method = "api"
           => /\ posts'[SchedPost("pass1").id].status = "published"
              /\ posts'[SchedPost("pass1").id].event_id # NULL
              /\ posts'[SchedPost("pass1").id].event_id =
                     ExpectedEventId(sched["pass1"].out.body,
                                     posts'[SchedPost("pass1").id])
      ]_vars

\* The post is bound for the message queue and its account has no target.
NoQueueTarget(post) ==
    /\ post.publish_method = "nostrmq"
    /\ accounts[post.account_id].present
    /\ accounts[post.account_id].nostrmq_target = NULL

\* C18: on the message-queue channel with no target configured for the
\* account, the publish call fails before anything is sent, and the post
\* ends failed with the message that says the target is not set.
C18_NoTargetFailsBeforeSend ==
    [][/\ sched["pass1"].pc = "publish" /\ sched'["pass1"].pc = "record"
          /\ NoQueueTarget(SchedPost("pass1"))
            => /\ ~sched'["pass1"].out.ok
               /\ ~sched'["pass1"].out.invoked
               /\ handed' = handed
               /\ sched'["pass1"].out.error =
                      "NostrMQ target not set for NostrMQ publishing method"
       /\ Records("pass1") /\ NoQueueTarget(SchedPost("pass1"))
            => /\ posts'[SchedPost("pass1").id].status = "failed"
               /\ posts'[SchedPost("pass1").id].error_message =
                      "NostrMQ target not set for NostrMQ publishing method"
      ]_vars

\* C18: a signed post for the message queue on an account without a target
\* has been failed by a pass, and nothing was sent.
C18_Witness ==
    /\ sched["pass1"].pc = "idle"
    /\ posts[1].signed_event # NoEvent
    /\ NoQueueTarget(posts[1])
    /\ posts[1].status = "failed"
    /\ posts[1].error_message = ErrMqTarget
    /\ handed[1] = 0

\* C19: the channel a publish call uses for a post is the channel its
\* request named (post 2) and, when the request named none (post 1), the
\* default channel of the post's account, on both paths of the Scheduler.
C19_ChannelPrecedence ==
    [][sched["pass1"].pc = "publish" /\ sched'["pass1"].pc = "record"
          /\ sched'["pass1"].out.method # "none"
           => sched'["pass1"].out.method =
                  IF SchedPost("pass1").id = 1
                  THEN accounts[SchedPost("pass1").account_id].publish_method
                  ELSE SchedPost("pass1").publish_method
      ]_vars

(***************************************************************************)
(* Properties of the miner (SpecMiner).                                    *)
(***************************************************************************)

\* C20: mining with difficulty 0 is a no-op: the event mineEventPow(event, 0)
\* resolves with is the original event, with the same tags (no nonce tag)
\* and the same id.
C20_ZeroDifficultyNoOp ==
    miner.pc = "resolved" /\ miner.difficulty = 0
        => /\ miner.mined.tags = miner.serialised.tags
           /\ miner.mined.id = miner.serialised.id
           /\ miner.mined = miner.serialised

\* Bit k (from the left, 1-based) of a hash given by its hexadecimal digits.
HashBit(id, k) == (id[((k - 1) \div 4) + 1] \div (2 ^ (3 - ((k - 1) % 4)))) % 2

\* The number of leading zero bits of a hash.
LeadingZeroBits(id) ==
    LET zeros == {n \in 0..(4 * Len(id)) : \A k \in 1..n : HashBit(id, k) = 0}
    IN  CHOOSE n \in zeros : \A m \in zeros : m <= n

\* C21: the acceptance test of the miner holds of a hash and a difficulty N
\* exactly when the hash has at least N leading zero bits; the event mining
\* returns has a hash with at least N leading zero bits, and checking that
\* hash against N again passes.
C21_MinedHashMeetsDifficulty ==
    /\ miner.pc # "idle"
          => (hashMatchesDifficulty(miner.mined.id, miner.difficulty)
                  <=> LeadingZeroBits(miner.mined.id) >= miner.difficulty)
    /\ miner.pc = "resolved"
          => /\ LeadingZeroBits(miner.mined.id) >= miner.difficulty
             /\ hashMatchesDifficulty(miner.mined.id, miner.difficulty)
             /\ miner.mined.id =
                    getEventHash([pubkey |-> miner.mined.pubkey,
                                  created_at |-> miner.mined.created_at,
                                  kind |-> miner.mined.kind,
                                  tags |-> miner.mined.tags,
                                  content |-> miner.mined.content])

\* C21: a mining call with a difficulty that is not a multiple of four has
\* resolved after more than one attempt.
C21_Witness ==
    /\ miner.pc = "resolved"
    /\ miner.difficulty % 4 # 0
    /\ miner.nonce > 0
    /\ LeadingZeroBits(miner.mined.id) >= miner.difficulty

\* The original event with the one nonce tag of attempt k, and its hash.
WithNonce(evt, k, difficulty) ==
    [pubkey |-> evt.pubkey, created_at |-> evt.created_at, kind |-> evt.kind,
     content |-> evt.content,
     tags |-> evt.tags \o <<<<"nonce", ToString(k), ToString(difficulty)>>>>]

\* The nonce tags among the tags of an event.
NonceTags(tags) == {k \in 1..Len(tags) : tags[k][1] = "nonce"}

\* C29: the miner starts with nonce 0 and goes up by one; every attempt is
\* the original tag set with exactly one nonce tag, that of the attempt;
\* the event returned is that of the smallest nonce whose hash meets the
\* difficulty.
C29_SmallestNonceOneTag ==
    [][/\ miner.pc = "idle" /\ miner'.pc = "mining" => miner'.nonce = 0
       /\ miner.pc = "mining" /\ miner'.pc \in {"mining", "resolved"}
            => /\ miner'.mined.tags =
                      WithNonce(miner.serialised, miner.nonce, miner.difficulty).tags
               /\ Cardinality(NonceTags(miner'.mined.tags)) = 1
               /\ Len(miner'.mined.tags) = Len(miner.serialised.tags) + 1
               /\ miner'.mined.id =
                      getEventHash(WithNonce(miner.serialised, miner.nonce,
                                             miner.difficulty))
               /\ miner'.pc = "mining"
                     => /\ miner'.nonce = miner.nonce + 1
                        /\ LeadingZeroBits(miner'.mined.id) < miner.difficulty
               /\ miner'.pc = "resolved"
                     => /\ miner'.nonce = miner.nonce
                        /\ LeadingZeroBits(miner'.mined.id) >= miner.difficulty
                        /\ \A k \in 0..(miner.nonce - 1) :
                              LeadingZeroBits(getEventHash(
                                  WithNonce(miner.serialised, k, miner.difficulty)))
                                  < miner.difficulty
      ]_vars

\* C29: a mining call has resolved at its third nonce or later, for an event
\* that had a tag of its own.
C29_Witness ==
    /\ miner.pc = "resolved"
    /\ miner.nonce >= 2
    /\ Len(miner.serialised.tags) = 1
    /\ Len(miner.mined.tags) = 2

(***************************************************************************)
(* Properties of signing with proof-of-work (SpecSignPow, FairMiner).      *)
(***************************************************************************)

\* What is hashed of an event.
Hashed(evt) ==
    [pubkey |-> evt.pubkey, created_at |-> evt.created_at, kind |-> evt.kind,
     tags |-> evt.tags, content |-> evt.content]

\* C22: with a difficulty above 0 a post is persisted and marked signed
\* only after its mining call resolved, for an event that was signed before
\* mining; the payload persisted is the mined payload with its nonce tag,
\* and its signature is over the id of that payload, not the signature
\* made before mining.
C22_SignedAfterMining ==
    [][\A p \in DOMAIN posts :
          posts'[p].signed_event # posts[p].signed_event
              => /\ posts'[p].status = "signed"
                 /\ miner.pc = "resolved"
                 /\ miner.serialised.sig =
                        <<"sig", miner.serialised.sig[2], miner.serialised.id>>
                 /\ NonceTags(miner.serialised.tags) = {}
                 /\ Hashed(posts'[p].signed_event[1]) = Hashed(miner.mined)
                 /\ Cardinality(NonceTags(posts'[p].signed_event[1].tags)) = 1
                 /\ posts'[p].signed_event[1].id =
                        getEventHash(Hashed(posts'[p].signed_event[1]))
                 /\ posts'[p].signed_event[1].sig =
                        <<"sig", miner.serialised.sig[2],
                          getEventHash(Hashed(posts'[p].signed_event[1]))>>
                 /\ LeadingZeroBits(posts'[p].signed_event[1].id) >= PowBits
      ]_vars

\* C22: a post is signed and its mined id differs from the id it was first
\* signed with.
C22_Witness ==
    \E p \in DOMAIN posts :
        /\ posts[p].status = "signed"
        /\ posts[p].signed_event # NoEvent
        /\ posts[p].signed_event[1].id #
               SignWith(buildTextNote(posts[p].signed_event[1].content,
                                      posts[p].signed_event[1].created_at),
                        posts[p].signed_event[1].sig[2]).id

\* C23: when the worker of a mining call fails or ends without a result,
\* the call settles: it resolves or rejects.
C23_MiningCallSettles ==
    miner.pc \in {"rejected", "exited"} ~> miner.pc \in {"resolved", "rejected"}

(***************************************************************************)
(* The signing key (SpecKeys).                                             *)
(***************************************************************************)

\* The account whose posts pass t works on after a step.
SqAccount(t) == sq'[t].groups[sq'[t].g].accountId

\* Pass t turns to the posts of an account in this step.
SqTurnsToAccount(t) ==
    /\ sq'[t].pc # "idle"
    /\ sq[t].pc = "idle" \/ sq'[t].g # sq[t].g

\* C28: a pass that turns to an account takes the key of the keychain
\* whenever the keychain holds one, and the database copy only when the
\* keychain holds none; with neither it signs no post of the account; every
\* payload it stores carries the key it took, so all posts of an account
\* signed in a pass carry one key.
C28_KeychainFirst ==
    /\ [][\A t \in SqTasks :
            /\ SqTurnsToAccount(t) =>
                 IF keychain[SqAccount(t)] # NULL
                 THEN sq'[t].nsec = keychain[SqAccount(t)] /\ sq'[t].pc = "markSigning"
                 ELSE IF accounts[SqAccount(t)].nsec # NULL
                 THEN sq'[t].nsec = accounts[SqAccount(t)].nsec /\ sq'[t].pc = "markSigning"
                 ELSE sq'[t].nsec = NULL /\ sq'[t].pc = "failAccount"
            /\ (sq[t].pc = "failAccount" /\ sq'[t] # sq[t]) =>
                 /\ posts'[SqPost(t)].status = "failed"
                 /\ posts'[SqPost(t)].signed_event = NoEvent
            /\ (sq[t].pc = "sign" /\ posts'[SqPost(t)].status = "signed") =>
                 /\ sq[t].nsec # NULL
                 /\ posts'[SqPost(t)].signed_event[1].pubkey = sq[t].nsec
       ]_vars
    /\ [](\A p \in DOMAIN posts, q \in DOMAIN posts :
            (/\ posts[p].account_id = posts[q].account_id
             /\ posts[p].status = "signed"
             /\ posts[q].status = "signed")
                => posts[p].signed_event[1].pubkey = posts[q].signed_event[1].pubkey)

\* C28: both posts of an account are signed with the key the keychain held
\* when the pass turned to the account, the database holds another copy and
\* the keychain has changed since.
C28_Witness ==
    /\ posts[1].account_id = posts[2].account_id
    /\ posts[1].status = "signed" /\ posts[2].status = "signed"
    /\ accounts[posts[1].account_id].nsec # NULL
    /\ posts[1].signed_event[1].pubkey \in KeychainKeys(posts[1].account_id)
    /\ keychain[posts[1].account_id] # posts[1].signed_event[1].pubkey

(***************************************************************************)
(* The order of dispatch in a pass of the Scheduler (SpecOrdering).        *)
(***************************************************************************)

\* Pass t hands its current post to the Publisher in this step.
Dispatches(t) == sched[t].pc = "publish" /\ sched'[t].pc = "record"

\* The due posts in the status a phase of the pass works on.
Waiting(phase) ==
    {q \in DOMAIN posts :
        /\ posts[q].scheduled_for <= now
        /\ posts[q].status = IF phase = "signed" THEN "signed" ELSE "pending"}

\* C30: when a pass dispatches a legacy pending post no signed due post is
\* left undispatched, and the post a pass dispatches is one with the
\* earliest due time among the posts of its group not dispatched yet.
C30_SignedFirstAscending ==
    [][\A t \in SchedTasks :
          Dispatches(t) =>
              /\ SchedPost(t).id \in Waiting(sched[t].phase)
              /\ sched[t].phase = "legacy" => Waiting("signed") = {}
              /\ \A q \in Waiting(sched[t].phase) :
                     SchedPost(t).scheduled_for <= posts[q].scheduled_for
      ]_vars

\* C30: the second post of a group is dispatched, and it is the post with
\* the smaller id and the later due time.
C30_Witness ==
    /\ sched["pass1"].pc = "record"
    /\ sched["pass1"].i = 2
    /\ sched["pass1"].list[1].id = 2
    /\ sched["pass1"].list[2].id = 1
    /\ sched["pass1"].list[1].scheduled_for < sched["pass1"].list[2].scheduled_for

(***************************************************************************)
(* The frame of the pipeline (SpecFrame).                                  *)
(***************************************************************************)

\* The posts a task of the pipeline is working on.
BeingProcessed ==
    {SqPost(t) : t \in {u \in SqTasks : sq[u].pc # "idle"}}
    \cup {SchedPost(t).id : t \in {u \in SchedTasks : sched[u].pc \in {"record", "eventDetails"}}}
    \cup (IF pn.pc \in {"publish", "eventDetails"} THEN {pn.post} ELSE {})

\* The columns of a post no step of the pipeline writes.
Identity(post) ==
    [id |-> post.id, note_id |-> post.note_id, scheduled_for |-> post.scheduled_for,
     account_id |-> post.account_id, publish_method |-> post.publish_method,
     api_endpoint |-> post.api_endpoint]

\* C26: no step of a Signing Queue pass, of a Scheduler pass or of
\* publishNow changes a note, an account or the set of posts; a step
\* changes only status, error message, published timestamp, event id,
\* permalink and signed payload, and only of the post being processed.
C26_PipelineFrame ==
    [][/\ notes' = notes
       /\ accounts' = accounts
       /\ keychain' = keychain
       /\ DOMAIN posts' = DOMAIN posts
       /\ \A p \in DOMAIN posts :
            /\ Identity(posts'[p]) = Identity(posts[p])
            /\ posts'[p] # posts[p] => p \in BeingProcessed
       /\ Cardinality({p \in DOMAIN posts : posts'[p] # posts[p]}) <= 1
      ]_vars

\* C26: one post has been signed, published and given its event id while
\* the other has not been touched.
C26_Witness ==
    \E p \in DOMAIN posts, q \in DOMAIN posts :
        /\ posts[p].status = "published"
        /\ posts[p].event_id # NULL
        /\ posts[p].signed_event # NoEvent
        /\ posts[q] = NewPost(q, 0, posts[q].account_id, posts[q].publish_method)

(***************************************************************************)
(* Stopping (SpecStop).                                                    *)
(***************************************************************************)

\* C25: after stop() no pass starts from the timer, and a post whose
\* publish or signing is in flight still has its outcome recorded when the
\* operation ends: published or failed after a publish, signed or failed
\* after a signing.
C25_StopIsCooperative ==
    [][/\ \A t \in SchedTasks :
            /\ (stopped.scheduler /\ sched[t].pc = "idle") => sched'[t].pc = "idle"
            /\ (sched[t].pc = "record" /\ sched'[t] # sched[t])
                   => posts'[SchedPost(t).id].status \in {"published", "failed"}
       /\ \A t \in SqTasks :
            /\ (stopped.signingQueue /\ sq[t].pc = "idle") => sq'[t].pc = "idle"
            /\ (sq[t].pc = "sign" /\ sq'[t] # sq[t])
                   => posts'[SqPost(t)].status \in {"signed", "failed"}
      ]_vars

(***************************************************************************)
(* Liveness of the pipeline (FairPipeline).                                *)
(***************************************************************************)

\* Post p is due.
IsDue(p) == posts[p].scheduled_for <= now

SentTo(t) ==
    IF sched[t].phase = "signed"
    THEN PreSignedPlan(SchedPost(t), accounts).endpoint
    ELSE LegacyPlan(posts, accounts, SchedPost(t).id).endpoint

\* C31: a post dispatched on the API channel is sent to its own endpoint
\* when it has one, otherwise to the endpoint of its account, otherwise to
\* the configured default endpoint.
C31_PostEndpointFirst ==
    [][\A t \in SchedTasks :
          (Dispatches(t) /\ sched'[t].out.method = "api") =>
              SentTo(t) = OrElse(SchedPost(t).api_endpoint,
                                 OrElse(accounts[SchedPost(t).account_id].api_endpoint,
                                        OrElse(EnvApiEndpoint, DefaultApiEndpoint)))
      ]_vars

(***************************************************************************)
(* The signed payload (SpecPayload).                                       *)
(***************************************************************************)

\* Post p has a payload that parses as an event.
UsablePayload(p) ==
    /\ posts[p].signed_event # NoEvent
    /\ JsonParses(posts[p].signed_event[1])

\* C32: every step that puts a post in status signed stores a payload that
\* parses as an event, and no step takes the payload of a signed post away;
\* a signed post the Scheduler handles without a usable payload is marked
\* failed with an error message, and no step marks it published.
C32_SignedHasPayload ==
    [][\A p \in DOMAIN posts :
          /\ (posts'[p].status = "signed" /\ posts'[p] # posts[p])
                 => /\ posts'[p].signed_event # NoEvent
                    /\ JsonParses(posts'[p].signed_event[1])
          /\ (posts[p].status = "signed" /\ ~UsablePayload(p))
                 => /\ posts'[p].status \in {"signed", "failed"}
                    /\ posts'[p].status = "failed" =>
                           posts'[p].error_message \in {ErrNoPreSigned, ErrInvalidJson}
          /\ (\E t \in SchedTasks :
                /\ sched[t].pc = "record" /\ sched'[t] # sched[t]
                /\ SchedPost(t).id = p /\ sched[t].phase = "signed"
                /\ ~UsablePayload(p) /\ posts[p].status = "signed")
                 => posts'[p].status = "failed"
      ]_vars

\* C32: a row that was in status signed without a payload and one whose
\* payload was not JSON have both been marked failed.
C32_Witness ==
    /\ posts[1].status = "failed" /\ posts[2].status = "failed"
    /\ {posts[1].error_message, posts[2].error_message}
           = {ErrNoPreSigned, ErrInvalidJson}

(***************************************************************************)
(* The busy flag of the Signing Queue (SpecStop, SpecSignPow).             *)
(***************************************************************************)

\* C33: whenever the busy flag is false no post is in status signing.
C33_NoSigningWhenIdle ==
    ~isProcessing => \A p \in DOMAIN posts : posts[p].status # "signing"

\* C34: every pass of processQueue() that starts ends with the busy flag
\* false.
C34_BusyFlagReleased == isProcessing ~> ~isProcessing

(***************************************************************************)
(* The receiver subscription (SpecReceiver).                               *)
(***************************************************************************)

\* C35: at most one receiver subscription is open at any time, and when
\* receiveSubscription is unset (before the first initialise, after a
\* stop) none is open.
C35_OneSubscription ==
    /\ Cardinality(receiver.open) <= 1
    /\ receiver.receiveSubscription = NULL => receiver.open = {}

\* What the handler did with the post of the request it has answered.
WebAnswered == web.pc = "responded" /\ web.post # 0

\* C36: a post created through POST /api/posts with a due time at most two
\* minutes ahead is handed to publishNow and the signing queue is not
\* triggered; a later one triggers the signing queue and publishNow is not
\* called; in both cases the request is answered with success and the post
\* is in the store.
C36_ImmediateOrQueued ==
    WebAnswered =>
        /\ web.status = 200
        /\ web.post \in DOMAIN posts
        /\ IF web.isImmediate
           THEN web.called /\ ~web.triggered
           ELSE web.triggered /\ ~web.called

\* The jobs in status running.
RunningJobs == getJobsByStatus("running")

\* C37: at most one job has status running, and it is processingJob; a call
\* of processNextJob while a job is being processed or while the service is
\* stopped starts no job; a completed or failed job is never changed again
\* (cleanup may delete it).
C37_OneJobAtATime ==
    /\ [](/\ Cardinality(RunningJobs) <= 1
          /\ RunningJobs = {jobService.processingJob} \ {0})
    /\ [][/\ JobsBusy => getJobsByStatus("running")' \subseteq RunningJobs
          /\ \A j \in DOMAIN jobService.jobs :
                 jobService.jobs[j].status \in {"completed", "failed"}
                 => \/ j \notin DOMAIN jobService.jobs'
                    \/ jobService.jobs'[j] = jobService.jobs[j]]_vars

\* A job is running while the service is stopped and another is queued, and
\* a completed job is in the table.
C37_Witness ==
    /\ ~jobService.isRunning
    /\ RunningJobs # {}
    /\ getJobsByStatus("queued") # {}
    /\ getJobsByStatus("completed") # {}

\* C38: retry_count never exceeds max_retries; a queued job has been
\* executed retry_count times, a running job once more; a failed job has
\* been executed exactly max_retries + 1 times and carries its error; a job
\* queued again for a retry stays queued until processNextJob picks it.
C38_RetriesBounded ==
    /\ [](\A j \in DOMAIN jobService.jobs :
            LET job == jobService.jobs[j]
            IN  /\ job.retry_count <= job.max_retries
                /\ job.status = "queued" => job.executions = job.retry_count
                /\ job.status = "running" => job.executions = job.retry_count + 1
                /\ job.status = "failed" =>
                       /\ job.retry_count = job.max_retries
                       /\ job.executions = job.max_retries + 1
                       /\ job.error # NULL)
    /\ [][\A j \in DOMAIN jobService.jobs :
            jobService.jobs[j].status = "queued" =>
                /\ j \in DOMAIN jobService.jobs'
                /\ jobService.jobs'[j].status \in {"queued", "running"}
                /\ jobService.jobs'[j].status = "running" =>
                       /\ ~JobsBusy
                       /\ jobService.processingJob' = j]_vars

\* A job with three retries has failed after four executions, and another
\* job is waiting for its second execution.
C38_Witness ==
    \E j \in DOMAIN jobService.jobs, k \in DOMAIN jobService.jobs :
        /\ jobService.jobs[j].status = "failed"
        /\ jobService.jobs[j].max_retries = 3
        /\ jobService.jobs[j].executions = 4
        /\ jobService.jobs[k].status = "queued"
        /\ jobService.jobs[k].retry_count = 1

\* The job that a step starts (0: the step starts none).
Started ==
    IF \E j \in DOMAIN jobService.jobs :
           jobService.jobs[j].status = "queued" /\ jobService.jobs'[j].status = "running"
    THEN jobService.processingJob'
    ELSE 0

\* C39: the job that starts has the highest priority of the queued jobs
\* and, among the queued jobs of its priority, the earliest created_at; no
\* job of a higher priority is queued at that moment.
C39_HighestPriorityFirst ==
    [][Started # 0 =>
          LET job == jobService.jobs[Started]
          IN  /\ job.status = "queued"
              /\ \A k \in getJobsByStatus("queued") :
                     /\ jobService.jobs[k].priority <= job.priority
                     /\ jobService.jobs[k].priority = job.priority
                            => job.created_at <= jobService.jobs[k].created_at]_vars

\* A job of lower priority and a later one of higher priority were queued
\* together with a third; the higher one has been run first and the lower
\* one runs while the third, queued later with the same priority, waits.
C39_Witness ==
    /\ DOMAIN jobService.jobs = JobIds
    /\ jobService.jobs[1].priority < jobService.jobs[2].priority
    /\ jobService.jobs[1].priority = jobService.jobs[3].priority
    /\ jobService.jobs[1].created_at < jobService.jobs[3].created_at
    /\ jobService.jobs[2].status = "completed"
    /\ jobService.jobs[1].status = "running"
    /\ jobService.jobs[3].status = "queued"
    /\ jobService.jobs[2].executions = 1
    /\ jobService.jobs[3].executions = 0

====
